---- MODULE Spec2Model ----
(***************************************************************************)
(* Blueprint-to-project compilation pipeline of the Kontrol backend:       *)
(* MCPService (validation, quality score, best-practice enhancement),      *)
(* BuilderService.generateProject (working directory, rendering, archive,  *)
(* cleanup) and the three generation entry points that drive them.         *)
(*                                                                         *)
(* A JavaScript object is a function whose DOMAIN is the set of the        *)
(* properties it carries: an absent property is a key outside the DOMAIN.  *)
(***************************************************************************)
EXTENDS Integers, Sequences, FiniteSets, TLC

VARIABLES
    blueprint,    \* the blueprint handed to the pure stages
    vResult,      \* outcome of the last validateBlueprint call
    sIssues,      \* issue list handed to calculateQualityScore
    sWarnings,    \* warning list handed to calculateQualityScore
    sScore,       \* the score it returned (NoScore before the first call)
    sPrevScore,   \* the score of the previous call on the same blueprint
    eInput,       \* the blueprint as supplied by the caller, before enhancement
    ePrev,        \* the blueprint before the last applyBestPractices
    eCount,       \* number of applyBestPractices applications so far
    dArgs,        \* the arguments handed to findDependencies
    dResult,      \* what findDependencies returned (NoResult before the call)
    nInput,       \* the name first handed to sanitizeName
    nPrev,        \* the name before the last sanitizeName
    nName,        \* the name after the last sanitizeName
    nCount,       \* number of sanitizeName applications so far
    cArgs,        \* the arguments handed to generateDockerCompose
    cResult,      \* the descriptor it rendered (NoResult before the call)
    gArgs,        \* the arguments of generateService and the template directory it finds
    gPc,          \* position inside generateService
    gFiles,       \* the files in the service directory and what each holds
    gError,       \* the error generateService threw (NoError while it has not)
    gSwallowed,   \* the errors generateService caught and did not rethrow
    aRaw,         \* the raw blueprint handed to validateAndEnhanceBlueprint
    aResult,      \* what validateAndEnhanceBlueprint returned
    hRequest,     \* the request handed to MCPService.handleRequest
    hResult,      \* the handlers it invoked and how the call ended
    zCalls,       \* per request: its call of zipProject and what generateProject returns of it
    zFiles,       \* per archive path under generated/: whose project tree was written to it
    zNow,         \* Date.now()
    req,          \* per request: the entry point and the body it was submitted with
    pc,           \* per request: position in its handler / in generateProject
    gpArgs,       \* per request: the argument object handed to generateProject
    validation,   \* per request: what validateBlueprint returned to the handler
    response,     \* per request: the HTTP response sent
    projectId,    \* per request: the uuid generateProject drew for its working directory
    workDir,      \* per uuid: the directory temp/<uuid> on disk, and who operated on it
    archive,      \* per request: its archive file generated/<name>_<time>.zip on disk
    fsLog,        \* per request: file-system operations generateProject has issued
    failedStep,   \* per request: the generateProject step whose error is propagating
    svcIdx,       \* per request: index of the next service generateProject renders
    timer,        \* per request: the deferred cleanup (setTimeout) is pending
    crashed       \* the process was ended by an unhandled 'error' event

mcpVars == <<blueprint, vResult, sIssues, sWarnings, sScore, sPrevScore,
             eInput, ePrev, eCount>>

depVars == <<dArgs, dResult>>

nameVars == <<nInput, nPrev, nName, nCount>>

composeVars == <<cArgs, cResult>>

renderVars == <<gArgs, gPc, gFiles, gError, gSwallowed>>

aiVars == <<aRaw, aResult>>

handleVars == <<hRequest, hResult>>

zipVars == <<zCalls, zFiles, zNow>>

buildVars == <<composeVars, renderVars, aiVars, handleVars, zipVars>>

pureVars == <<mcpVars, depVars, nameVars, zipVars, buildVars>>

pipeVars == <<req, pc, gpArgs, validation, response, projectId, workDir, archive, fsLog,
              failedStep, svcIdx, timer, crashed>>

vars == <<pureVars, pipeVars>>

----------------------------------------------------------------------------
(* JavaScript object helpers *)

Undefined == "undefined"

EmptyObj == [k \in {} |-> k]

Has(o, k) == k \in DOMAIN o

\* `${o.k}`: the property, or the text "undefined" when it is absent
Field(o, k) == IF Has(o, k) THEN o[k] ELSE Undefined

\* { ...o, k: v }
Put(o, k, v) == [x \in DOMAIN o \cup {k} |-> IF x = k THEN v ELSE o[x]]

\* service.config, or {} when the service carries no config (spread and ?. agree)
ConfigOf(service) == IF Has(service, "config") THEN service.config ELSE EmptyObj

\* !!service.type for the string types of the model
TypeTruthy(service) == Has(service, "type") /\ service.type # ""

\* !!service.config?.port
PortTruthy(service) == Has(ConfigOf(service), "port") /\ ConfigOf(service).port # 0

\* !!service.config?.password
PasswordTruthy(service) ==
    Has(ConfigOf(service), "password") /\ ConfigOf(service).password # ""

\* type.includes('database') over the type names of the model
DatabaseNamedTypes == {"database"}
IncludesDatabase(type) == type \in DatabaseNamedTypes

Max(a, b) == IF a >= b THEN a ELSE b
Min(a, b) == IF a <= b THEN a ELSE b

----------------------------------------------------------------------------
(* MCPService.calculateQualityScore *)

AnyHealthCheck(bp) ==
    Has(bp, "services") /\
    \E i \in 1..Len(bp.services) : Has(ConfigOf(bp.services[i]), "healthCheck")

AnyResources(bp) ==
    Has(bp, "services") /\
    \E i \in 1..Len(bp.services) : Has(ConfigOf(bp.services[i]), "resources")

AnyConnection(bp) == Has(bp, "connections") /\ Len(bp.connections) > 0

calculateQualityScoreNoFloor(bp, issues, warnings) ==
    LET s0 == 100
        s1 == s0 - Len(issues) * 20
        s2 == s1 - Len(warnings) * 5
        s3 == IF AnyHealthCheck(bp) THEN s2 + 5 ELSE s2
        s4 == IF AnyResources(bp) THEN s3 + 5 ELSE s3
        s5 == IF AnyConnection(bp) THEN s4 + 10 ELSE s4
    IN  Min(100, s5)

calculateQualityScoreBonusPerIssue(bp, issues, warnings) ==
    LET s0 == 100
        s1 == s0 + Len(issues) * 20
        s2 == s1 - Len(warnings) * 5
        s3 == IF AnyHealthCheck(bp) THEN s2 + 5 ELSE s2
        s4 == IF AnyResources(bp) THEN s3 + 5 ELSE s3
        s5 == IF AnyConnection(bp) THEN s4 + 10 ELSE s4
    IN  Max(0, Min(100, s5))

calculateQualityScore(bp, issues, warnings) ==
    LET s0 == 100
        s1 == s0 - Len(issues) * 20
        s2 == s1 - Len(warnings) * 5
        s3 == IF AnyHealthCheck(bp) THEN s2 + 5 ELSE s2
        s4 == IF AnyResources(bp) THEN s3 + 5 ELSE s3
        s5 == IF AnyConnection(bp) THEN s4 + 10 ELSE s4
    IN  Max(0, Min(100, s5))

----------------------------------------------------------------------------
(* MCPService.validateBlueprint *)

EmptyBlueprintIssue == <<"Blueprint must contain at least one service">>

\* The first forEach: one pass over the services, pushing issues and
\* warnings; service.type.includes(...) on a service without a type throws
\* a TypeError out of validateBlueprint, after its issue was pushed.
RECURSIVE CheckServices(_, _, _)
CheckServices(services, k, acc) ==
    IF k > Len(services) THEN acc
    ELSE
        LET service == services[k]
            issues1 == IF ~TypeTruthy(service)
                       THEN Append(acc.issues, <<"missing type", Field(service, "id")>>)
                       ELSE acc.issues
            warns1  == IF ~PortTruthy(service)
                       THEN Append(acc.warnings, <<"missing port", Field(service, "name")>>)
                       ELSE acc.warnings
        IN  IF ~Has(service, "type")
            THEN [issues |-> issues1, warnings |-> warns1, threw |-> TRUE]
            ELSE
                LET warns2 == IF IncludesDatabase(service.type) /\ ~PasswordTruthy(service)
                              THEN Append(warns1, <<"no password", Field(service, "name")>>)
                              ELSE warns1
                IN  CheckServices(services, k + 1,
                        [issues |-> issues1, warnings |-> warns2, threw |-> FALSE])

\* connectedServices: every source and target of a connection
ConnectedServices(bp) ==
    IF Has(bp, "connections")
    THEN {bp.connections[i].source : i \in 1..Len(bp.connections)}
         \cup {bp.connections[i].target : i \in 1..Len(bp.connections)}
    ELSE {}

\* The second forEach: the "not connected" warnings, in service order
RECURSIVE IsolatedWarnings(_, _, _, _)
IsolatedWarnings(services, connected, k, acc) ==
    IF k > Len(services) THEN acc
    ELSE
        LET service == services[k]
        IN  IsolatedWarnings(services, connected, k + 1,
                IF Field(service, "id") \notin connected /\ Len(services) > 1
                THEN Append(acc, <<"not connected", Field(service, "name")>>)
                ELSE acc)

\* The second forEach without its "more than one service" guard
RECURSIVE IsolatedWarningsUnguarded(_, _, _, _)
IsolatedWarningsUnguarded(services, connected, k, acc) ==
    IF k > Len(services) THEN acc
    ELSE
        LET service == services[k]
        IN  IsolatedWarningsUnguarded(services, connected, k + 1,
                IF Field(service, "id") \notin connected
                THEN Append(acc, <<"not connected", Field(service, "name")>>)
                ELSE acc)

validateBlueprintNoIsolatedGuard(bp) ==
    LET services == IF Has(bp, "services") THEN bp.services ELSE <<>>
        issues0  == IF ~Has(bp, "services") \/ Len(bp.services) = 0
                    THEN <<EmptyBlueprintIssue>> ELSE <<>>
        pass1    == CheckServices(services, 1,
                        [issues |-> issues0, warnings |-> <<>>, threw |-> FALSE])
        warnings == IsolatedWarningsUnguarded(services, ConnectedServices(bp), 1, pass1.warnings)
    IN  IF pass1.threw
        THEN [outcome |-> "TypeError"]
        ELSE [outcome  |-> "report",
              valid    |-> (Len(pass1.issues) = 0),
              issues   |-> pass1.issues,
              warnings |-> warnings,
              score    |-> calculateQualityScore(bp, pass1.issues, warnings)]

validateBlueprintSkipEmptyCheck(bp) ==
    LET services == IF Has(bp, "services") THEN bp.services ELSE <<>>
        pass1    == CheckServices(services, 1,
                        [issues |-> <<>>, warnings |-> <<>>, threw |-> FALSE])
        warnings == IsolatedWarnings(services, ConnectedServices(bp), 1, pass1.warnings)
    IN  IF pass1.threw
        THEN [outcome |-> "TypeError"]
        ELSE [outcome  |-> "report",
              valid    |-> (Len(pass1.issues) = 0),
              issues   |-> pass1.issues,
              warnings |-> warnings,
              score    |-> calculateQualityScore(bp, pass1.issues, warnings)]

validateBlueprint(bp) ==
    LET services == IF Has(bp, "services") THEN bp.services ELSE <<>>
        issues0  == IF ~Has(bp, "services") \/ Len(bp.services) = 0
                    THEN <<EmptyBlueprintIssue>> ELSE <<>>
        pass1    == CheckServices(services, 1,
                        [issues |-> issues0, warnings |-> <<>>, threw |-> FALSE])
        warnings == IsolatedWarnings(services, ConnectedServices(bp), 1, pass1.warnings)
    IN  IF pass1.threw
        THEN [outcome |-> "TypeError"]
        ELSE [outcome  |-> "report",
              valid    |-> (Len(pass1.issues) = 0),
              issues   |-> pass1.issues,
              warnings |-> warnings,
              score    |-> calculateQualityScore(bp, pass1.issues, warnings)]

----------------------------------------------------------------------------
(* MCPService.applyBestPractices and its registry tables *)

GenericHealthCheck == [interval |-> 30, timeout |-> 10]

getHealthCheckConfig(serviceType) ==
    CASE serviceType = "node"       -> [endpoint |-> "/health", interval |-> 30, timeout |-> 10]
      [] serviceType = "python"     -> [endpoint |-> "/health", interval |-> 30, timeout |-> 10]
      [] serviceType = "react"      -> [endpoint |-> "/", interval |-> 30, timeout |-> 10]
      [] serviceType = "mongodb"    -> [command |-> "mongo ping", interval |-> 30]
      [] serviceType = "postgresql" -> [command |-> "pg_isready", interval |-> 30]
      [] serviceType = "redis"      -> [command |-> "redis-cli ping", interval |-> 30]
      [] OTHER                      -> GenericHealthCheck

getResourceLimits(serviceType) ==
    CASE serviceType = "node"       -> [cpus |-> "0.5", memory |-> "512M"]
      [] serviceType = "python"     -> [cpus |-> "0.5", memory |-> "512M"]
      [] serviceType = "react"      -> [cpus |-> "0.25", memory |-> "256M"]
      [] serviceType = "mongodb"    -> [cpus |-> "1", memory |-> "1G"]
      [] serviceType = "postgresql" -> [cpus |-> "1", memory |-> "1G"]
      [] serviceType = "redis"      -> [cpus |-> "0.25", memory |-> "256M"]
      [] OTHER                      -> [cpus |-> "0.5", memory |-> "512M"]

\* { ...service, config: { ...service.config, [key]: value } }
WithConfig(service, key, value) ==
    Put(service, "config", Put(ConfigOf(service), key, value))

HealthCheckFor(service) == getHealthCheckConfig(Field(service, "type"))
RestartFor(service) == "unless-stopped"
ResourcesFor(service) == getResourceLimits(Field(service, "type"))

\* A health-check step that keeps a present check but re-derives it as the
\* generic probe: the second application then differs from the first.
HealthCheckForGenericWhenPresent(service) ==
    IF Has(ConfigOf(service), "healthCheck")
    THEN GenericHealthCheck
    ELSE getHealthCheckConfig(Field(service, "type"))

applyBestPracticesRederive(bp) ==
    IF ~Has(bp, "services") THEN bp
    ELSE
        LET n == Len(bp.services)
            withHealth   == [i \in 1..n |-> WithConfig(bp.services[i], "healthCheck",
                                                HealthCheckForGenericWhenPresent(bp.services[i]))]
            withRestart  == [i \in 1..n |-> WithConfig(withHealth[i], "restart",
                                                RestartFor(withHealth[i]))]
            withResource == [i \in 1..n |-> WithConfig(withRestart[i], "resources",
                                                ResourcesFor(withRestart[i]))]
        IN  Put(bp, "services", withResource)

applyBestPractices(bp) ==
    IF ~Has(bp, "services") THEN bp
    ELSE
        LET n == Len(bp.services)
            withHealth   == [i \in 1..n |-> WithConfig(bp.services[i], "healthCheck",
                                                HealthCheckFor(bp.services[i]))]
            withRestart  == [i \in 1..n |-> WithConfig(withHealth[i], "restart",
                                                RestartFor(withHealth[i]))]
            withResource == [i \in 1..n |-> WithConfig(withRestart[i], "resources",
                                                ResourcesFor(withRestart[i]))]
        IN  Put(bp, "services", withResource)

----------------------------------------------------------------------------
(* BuilderService.findDependencies *)

\* connections.filter(conn => conn.source === serviceId).map(conn => conn.target),
\* from connection k on
RECURSIVE DependencyIds(_, _, _)
DependencyIds(serviceId, connections, k) ==
    IF k > Len(connections) THEN <<>>
    ELSE
        LET conn == connections[k]
            rest == DependencyIds(serviceId, connections, k + 1)
        IN  IF Field(conn, "source") = serviceId
            THEN <<Field(conn, "target")>> \o rest
            ELSE rest

\* The elements of a list
ElementsOf(list) == {list[k] : k \in 1..Len(list)}

\* dependencyIds.includes(id)
Includes(list, x) == \E k \in 1..Len(list) : list[k] = x

\* allServices.filter(s => keep(s)), from service k on
RECURSIVE FilterServices(_, _, _)
FilterServices(allServices, dependencyIds, k) ==
    IF k > Len(allServices) THEN <<>>
    ELSE
        LET s == allServices[k]
            rest == FilterServices(allServices, dependencyIds, k + 1)
        IN  IF Includes(dependencyIds, Field(s, "id")) THEN <<s>> \o rest ELSE rest

\* One node per dependency id, in connection order, whether or not the id
\* names a node of allServices
findDependenciesPerConnection(args) ==
    IF ~Has(args, "connections")
    THEN [outcome |-> "list", list |-> <<>>]
    ELSE
        LET dependencyIds == DependencyIds(args.serviceId, args.connections, 1)
        IN  [outcome |-> "list",
             list |-> [k \in 1..Len(dependencyIds) |-> [id |-> dependencyIds[k]]]]

\* findDependencies(serviceId, connections, allServices); args carries the
\* three arguments, connections absent when the caller passes undefined
findDependencies(args) ==
    IF ~Has(args, "connections")
    THEN [outcome |-> "list", list |-> <<>>]
    ELSE
        LET dependencyIds == DependencyIds(args.serviceId, args.connections, 1)
        IN  [outcome |-> "list",
             list |-> FilterServices(args.allServices, dependencyIds, 1)]

----------------------------------------------------------------------------
(* BuilderService.sanitizeName; a name is the sequence of its characters *)

\* The upper-case letters of the model and their lower case
UpperCase == [A |-> "a", B |-> "b", C |-> "c", D |-> "d", M |-> "m"]

\* name.toLowerCase()
toLowerCase(name) ==
    [k \in 1..Len(name) |->
        IF name[k] \in DOMAIN UpperCase THEN UpperCase[name[k]] ELSE name[k]]

\* The characters of the model that [a-z0-9-] matches
LowerAlnumDash ==
    {"a", "b", "c", "d", "e", "f", "g", "h", "i", "j", "k", "l", "m", "n", "o", "p", "q",
     "r", "s", "t", "u", "v", "w", "x", "y", "z",
     "0", "1", "2", "3", "4", "5", "6", "7", "8", "9", "-"}

\* .replace(/[^a-z0-9-]/g, '-')
ReplaceOthers(name) ==
    [k \in 1..Len(name) |-> IF name[k] \in LowerAlnumDash THEN name[k] ELSE "-"]

\* .replace(/-+/g, '-'), from character k on
RECURSIVE CollapseFrom(_, _)
CollapseFrom(name, k) ==
    IF k > Len(name) THEN <<>>
    ELSE IF name[k] = "-" /\ k > 1 /\ name[k - 1] = "-" THEN CollapseFrom(name, k + 1)
    ELSE <<name[k]>> \o CollapseFrom(name, k + 1)

CollapseDashes(name) == CollapseFrom(name, 1)

\* The two replacements in the other order
sanitizeNameCollapseFirst(name) == ReplaceOthers(CollapseDashes(toLowerCase(name)))

sanitizeName(name) == CollapseDashes(ReplaceOthers(toLowerCase(name)))

----------------------------------------------------------------------------
(* Inputs of the pure stages *)

MaxServices == 2
MaxIssues == 7
MaxWarnings == 4
MaxEnhance == 2

SeqsUpTo(S, n) == UNION {[1..k -> S] : k \in 0..n}

NameOf(id) == IF id = "a" THEN "Api" ELSE "Worker"

\* Service nodes with and without a type, with and without a config
ServiceNodes(ids, types, configs) ==
    {[id |-> i, name |-> NameOf(i), type |-> t, config |-> c] :
        i \in ids, t \in types, c \in configs}
    \cup {[id |-> i, name |-> NameOf(i), type |-> t] : i \in ids, t \in types}
    \cup {[id |-> i, name |-> NameOf(i), config |-> c] : i \in ids, c \in configs}
    \cup {[id |-> i, name |-> NameOf(i)] : i \in ids}

\* Blueprints with and without a services list and a connections list
BlueprintsOf(serviceLists, connectionLists) ==
    {[services |-> s, connections |-> c] : s \in serviceLists, c \in connectionLists}
    \cup {[services |-> s] : s \in serviceLists}
    \cup {[connections |-> c] : c \in connectionLists}
    \cup {EmptyObj}

CallerHealthCheck == [endpoint |-> "/ping", interval |-> 5]
CallerResources == [cpus |-> "2", memory |-> "4G"]

ConnectionLists ==
    {<<>>,
     <<[source |-> "a", target |-> "b"]>>,
     <<[source |-> "a", target |-> "a"]>>}

ValidateConfigs ==
    {EmptyObj,
     [port |-> 5000, password |-> "secret"],
     [port |-> 5000, healthCheck |-> CallerHealthCheck, resources |-> CallerResources]}

ValidateBlueprints(n) ==
    BlueprintsOf(
        SeqsUpTo(ServiceNodes({"a", "b"}, {"node", "database", ""}, ValidateConfigs), n),
        ConnectionLists)

ScoreConfigs ==
    {EmptyObj,
     [healthCheck |-> CallerHealthCheck],
     [resources |-> CallerResources]}

ScoreBlueprints(n) ==
    BlueprintsOf(SeqsUpTo(ServiceNodes({"a"}, {"node"}, ScoreConfigs), n),
                 {<<>>, <<[source |-> "a", target |-> "a"]>>})

EnhanceConfigs ==
    {EmptyObj,
     [port |-> 5000],
     [healthCheck |-> CallerHealthCheck],
     [resources |-> CallerResources],
     [restart |-> "always"],
     [port |-> 5000, healthCheck |-> CallerHealthCheck, resources |-> CallerResources,
      restart |-> "unless-stopped"]}

EnhanceBlueprints(n) ==
    BlueprintsOf(
        SeqsUpTo(ServiceNodes({"a"}, {"node", "redis", "database"}, EnhanceConfigs), n),
        {<<>>})

MaxConnections == 2

\* Nodes as findDependencies reads them: by their id (one node carries none)
DepNodes ==
    {[id |-> i, type |-> "node"] : i \in {"a", "b", "c"}} \cup {[type |-> "redis"]}

\* Connections from two sources to nodes that exist, to one that does not
\* ("ghost"), and one connection without a target
DepConnections ==
    {[source |-> f, target |-> t] : f \in {"a", "b"}, t \in {"a", "b", "c", "ghost"}}
    \cup {[source |-> "a"]}

\* The arguments of a findDependencies call, connections passed or undefined
DepArgs(n, m) ==
    {[serviceId |-> "a", connections |-> c, allServices |-> sv] :
        c \in SeqsUpTo(DepConnections, m), sv \in SeqsUpTo(DepNodes, n)}
    \cup {[serviceId |-> "a", allServices |-> sv] : sv \in SeqsUpTo(DepNodes, n)}

MaxNameLen == 3
MaxSanitize == 2

NameChars == {"a", "B", "7", "-", "!"}

\* "My Cool App!"
MyCoolApp == <<"M", "y", " ", "C", "o", "o", "l", " ", "A", "p", "p", "!">>

\* Every name of up to n characters, and the project name of the scenario
Names(n) == SeqsUpTo(NameChars, n) \cup {MyCoolApp}

NoResult == [outcome |-> "none"]
NoScore == 0 - 1

PureIdle ==
    /\ vResult = NoResult
    /\ sIssues = <<>>
    /\ sWarnings = <<>>
    /\ sScore = NoScore
    /\ sPrevScore = NoScore
    /\ eInput = blueprint
    /\ ePrev = blueprint
    /\ eCount = 0

\* findDependencies has not been called
DepsIdle ==
    /\ dArgs = EmptyObj
    /\ dResult = NoResult

\* sanitizeName has not been called
NamesIdle ==
    /\ nInput = <<>>
    /\ nPrev = <<>>
    /\ nName = <<>>
    /\ nCount = 0

\* generateDockerCompose has not been called
ComposeIdle ==
    /\ cArgs = EmptyObj
    /\ cResult = NoResult

\* generateService has not been called
RenderIdle ==
    /\ gArgs = EmptyObj
    /\ gPc = "idle"
    /\ gFiles = EmptyObj
    /\ gError = "none"
    /\ gSwallowed = {}

\* validateAndEnhanceBlueprint has not been called
AiIdle ==
    /\ aRaw = EmptyObj
    /\ aResult = NoResult

\* handleRequest has not been called
HandleIdle ==
    /\ hRequest = EmptyObj
    /\ hResult = NoResult

\* zipProject has not been called
ZipIdle ==
    /\ zCalls = EmptyObj
    /\ zFiles = EmptyObj
    /\ zNow = 0

BuildIdle == ComposeIdle /\ RenderIdle /\ AiIdle /\ HandleIdle /\ ZipIdle

----------------------------------------------------------------------------
(* The generation entry points and BuilderService.generateProject *)

\* Two requests in flight at once
Requests == {"r1", "r2"}

EntryPoints == {"api-generate", "ai-generate-full", "mcp-generate"}

SvcApi == [id |-> "a", name |-> "Api", type |-> "node", config |-> [port |-> 5000]]
SvcCache == [id |-> "b", name |-> "Worker", type |-> "redis", config |-> [port |-> 6379]]
SvcBlankType == [id |-> "a", name |-> "Api", type |-> "", config |-> [port |-> 5000]]
SvcNoType == [id |-> "a", name |-> "Api", config |-> [port |-> 5000]]

PipelineBlueprints ==
    {[services |-> sv, connections |-> <<>>] :
        sv \in {<<>>, <<SvcApi>>, <<SvcBlankType>>, <<SvcNoType>>, <<SvcApi, SvcCache>>}}
    \cup {[services |-> <<SvcApi, SvcCache>>,
           connections |-> <<[source |-> "a", target |-> "b"]>>],
          [services |-> <<SvcApi>>],
          [connections |-> <<>>]}

\* What parsePromptToBlueprint can return: validateAndEnhanceBlueprint always
\* sets a services list and a connections list
AiBlueprints ==
    {b \in PipelineBlueprints : Has(b, "services") /\ Has(b, "connections")}

ProjectNames == {"", "My Cool App!"}

NoRequest == [entry |-> "none"]

\* The values uuidv4() can return, and the ones it can still return once
\* `issued` have been drawn: a version-4 uuid does not repeat
Uuids == {"u1", "u2"}

NoId == "none"

uuidv4Repeating(issued) == Uuids

uuidv4(issued) == Uuids \ issued

NoDir == [exists |-> FALSE, files |-> {}, touchedBy |-> {}]

\* projectDir of a request: temp/<projectId>
WorkDirOf(r) == IF projectId[r] = NoId THEN NoDir ELSE workDir[projectId[r]]

\* A file-system operation of request r on a directory
Touched(dir, r) == [dir EXCEPT !.touchedBy = @ \cup {r}]

PipeIdle ==
    /\ req = [r \in Requests |-> NoRequest]
    /\ pc = [r \in Requests |-> "idle"]
    /\ gpArgs = [r \in Requests |-> EmptyObj]
    /\ validation = [r \in Requests |-> NoResult]
    /\ response = [r \in Requests |-> "none"]
    /\ projectId = [r \in Requests |-> NoId]
    /\ workDir = [u \in Uuids |-> NoDir]
    /\ archive = [r \in Requests |-> "absent"]
    /\ fsLog = [r \in Requests |-> {}]
    /\ failedStep = [r \in Requests |-> "none"]
    /\ svcIdx = [r \in Requests |-> 0]
    /\ timer = [r \in Requests |-> FALSE]
    /\ crashed = FALSE

Init ==
    /\ blueprint = EmptyObj
    /\ PureIdle
    /\ DepsIdle
    /\ NamesIdle
    /\ BuildIdle
    /\ PipeIdle

\* A client posts a request to one of the generation entry points: a
\* blueprint (with a project name on /api/generate), or a prompt
Submit(r) ==
    /\ ~crashed
    /\ pc[r] = "idle"
    /\ \/ \E b \in PipelineBlueprints, n \in ProjectNames :
            req' = [req EXCEPT ![r] =
                        [entry |-> "api-generate", blueprint |-> b, projectName |-> n]]
       \/ \E b \in PipelineBlueprints :
            req' = [req EXCEPT ![r] = [entry |-> "mcp-generate", blueprint |-> b]]
       \/ req' = [req EXCEPT ![r] = [entry |-> "ai-generate-full"]]
    /\ pc' = [pc EXCEPT ![r] = "handler"]
    /\ UNCHANGED <<projectId, gpArgs, validation, response, workDir, archive, fsLog, failedStep,
                   svcIdx, timer, crashed>>
    /\ UNCHANGED pureVars

\* res.status(code).json(...) / result.stream.pipe(res): the handler is over
Reply(r, code) ==
    /\ response' = [response EXCEPT ![r] = code]
    /\ pc' = [pc EXCEPT ![r] = "done"]

\* POST /api/generate: express-validator on services and projectName, then
\* generateProject on the body as it is
ApiGenerate(r) ==
    /\ ~crashed
    /\ pc[r] = "handler"
    /\ req[r].entry = "api-generate"
    /\ LET b == req[r].blueprint
           errors == \/ ~Has(b, "services")
                     \/ Len(b.services) < 1
                     \/ req[r].projectName = ""
       IN  IF errors
           THEN /\ Reply(r, "400-errors")
                /\ UNCHANGED gpArgs
           ELSE /\ gpArgs' = [gpArgs EXCEPT ![r] =
                        [projectName |-> req[r].projectName,
                         services    |-> b.services,
                         connections |-> IF Has(b, "connections") THEN b.connections ELSE <<>>,
                         metadata    |-> EmptyObj]]
                /\ pc' = [pc EXCEPT ![r] = "gp:ensureDirectories"]
                /\ UNCHANGED response
    /\ UNCHANGED <<req, projectId, validation, workDir, archive, fsLog, failedStep, svcIdx, timer,
                   crashed>>
    /\ UNCHANGED pureVars

\* POST /api/ai/generate-full, step 1: aiService.parsePromptToBlueprint, an
\* external call that returns the blueprint or throws
AiParse(r) ==
    /\ ~crashed
    /\ pc[r] = "handler"
    /\ req[r].entry = "ai-generate-full"
    /\ \/ \E b \in AiBlueprints :
            /\ req' = [req EXCEPT ![r] = Put(@, "blueprint", b)]
            /\ pc' = [pc EXCEPT ![r] = "validate"]
            /\ UNCHANGED response
       \/ Reply(r, "500") /\ UNCHANGED req
    /\ UNCHANGED <<projectId, gpArgs, validation, workDir, archive, fsLog, failedStep, svcIdx,
                   timer, crashed>>
    /\ UNCHANGED pureVars

\* step 2: validateBlueprint, and the 400 carrying the report when invalid
AiValidate(r) ==
    /\ ~crashed
    /\ pc[r] = "validate"
    /\ LET v == validateBlueprint(req[r].blueprint)
       IN  IF v.outcome = "TypeError"
           THEN Reply(r, "500") /\ UNCHANGED validation
           ELSE /\ validation' = [validation EXCEPT ![r] = v]
                /\ IF ~v.valid
                   THEN Reply(r, "400-validation")
                   ELSE pc' = [pc EXCEPT ![r] = "enhance"] /\ UNCHANGED response
    /\ UNCHANGED <<req, projectId, gpArgs, workDir, archive, fsLog, failedStep, svcIdx, timer, crashed>>
    /\ UNCHANGED pureVars

\* step 3 and the call of step 4: enhanceBlueprint (generateSuggestions is an
\* external call that may throw), then generateProject({name, services, connections})
AiEnhance(r) ==
    /\ ~crashed
    /\ pc[r] = "enhance"
    /\ \E ok \in BOOLEAN :
          IF ok
          THEN /\ LET enhanced == applyBestPractices(req[r].blueprint)
                      picked == {"services", "connections"} \cap DOMAIN enhanced
                  IN  gpArgs' = [gpArgs EXCEPT ![r] =
                          Put([k \in picked |-> enhanced[k]], "name", "ai-generated-project")]
               /\ pc' = [pc EXCEPT ![r] = "gp:ensureDirectories"]
               /\ UNCHANGED response
          ELSE Reply(r, "500") /\ UNCHANGED gpArgs
    /\ UNCHANGED <<req, projectId, validation, workDir, archive, fsLog, failedStep, svcIdx, timer,
                   crashed>>
    /\ UNCHANGED pureVars

\* MCP operation 'generate': handleRequest -> generateBlueprint, which
\* enhances {services, connections, preferences} and calls generateProject
McpGenerate(r) ==
    /\ ~crashed
    /\ pc[r] = "handler"
    /\ req[r].entry = "mcp-generate"
    /\ LET payload == req[r].blueprint
           picked == {"services", "connections", "preferences"} \cap DOMAIN payload
       IN  gpArgs' = [gpArgs EXCEPT ![r] = applyBestPractices([k \in picked |-> payload[k]])]
    /\ pc' = [pc EXCEPT ![r] = "gp:ensureDirectories"]
    /\ UNCHANGED <<req, projectId, validation, response, workDir, archive, fsLog, failedStep, svcIdx,
                   timer, crashed>>
    /\ UNCHANGED pureVars

\* An error thrown inside the try block of generateProject: control goes to
\* its catch block
Throw(r, step) ==
    /\ failedStep' = [failedStep EXCEPT ![r] = step]
    /\ pc' = [pc EXCEPT ![r] = "gp:catch"]

Logged(r, op) == fsLog' = [fsLog EXCEPT ![r] = @ \cup {op}]

Written(r, file) ==
    workDir' = [workDir EXCEPT ![projectId[r]] = Touched([@ EXCEPT !.files = @ \cup {file}], r)]

\* const projectId = uuidv4(); const projectDir = path.join(tempDir, projectId);
\* try { await this.ensureDirectories()
GpEnsureDirectories(r) ==
    /\ ~crashed
    /\ pc[r] = "gp:ensureDirectories"
    /\ \E u \in uuidv4({projectId[q] : q \in Requests} \ {NoId}) :
          projectId' = [projectId EXCEPT ![r] = u]
    /\ Logged(r, "mkdir temp, generated")
    /\ \E ok \in BOOLEAN :
          IF ok
          THEN pc' = [pc EXCEPT ![r] = "gp:mkdir"] /\ UNCHANGED failedStep
          ELSE Throw(r, "ensureDirectories")
    /\ UNCHANGED <<req, gpArgs, validation, response, workDir, archive, svcIdx, timer,
                   crashed>>
    /\ UNCHANGED pureVars

\* await fs.mkdir(projectDir, { recursive: true })
GpMkdir(r) ==
    /\ ~crashed
    /\ pc[r] = "gp:mkdir"
    /\ Logged(r, "mkdir projectDir")
    /\ \E ok \in BOOLEAN :
          IF ok
          THEN /\ workDir' = [workDir EXCEPT ![projectId[r]] =
                                   Touched([@ EXCEPT !.exists = TRUE], r)]
               /\ pc' = [pc EXCEPT ![r] = "gp:compose"]
               /\ UNCHANGED failedStep
          ELSE Throw(r, "mkdir") /\ UNCHANGED workDir
    /\ UNCHANGED <<req, projectId, gpArgs, validation, response, archive, svcIdx, timer, crashed>>
    /\ UNCHANGED pureVars

\* !!service.label, a label being the sequence of its characters
LabelTruthy(service) == Has(service, "label") /\ service.label # <<>>

\* service.label || service.type is undefined: sanitizeName throws a TypeError
NoLabelNoType(service) ==
    ~LabelTruthy(service) /\ ~Has(service, "type")

\* generateDockerCompose throws a TypeError before it renders anything:
\* services.map on a missing list, sanitizeName(undefined), metadata.networkName
ComposeTypeError(args) ==
    \/ ~Has(args, "services")
    \/ \E i \in 1..Len(args.services) : NoLabelNoType(args.services[i])
    \/ ~Has(args, "projectName")
    \/ ~Has(args, "metadata")

\* The directory of a service under projectDir: its label, else its type
\* (both lower-case names in the model, which sanitizeName leaves as they are)
ServiceDirName(service) ==
    IF LabelTruthy(service) THEN service.label ELSE service.type

AfterServices(args, next) ==
    IF next > Len(args.services) THEN "gp:readme" ELSE "gp:service"

\* await this.generateDockerCompose(projectDir, {...})
GpCompose(r) ==
    /\ ~crashed
    /\ pc[r] = "gp:compose"
    /\ IF ComposeTypeError(gpArgs[r])
       THEN /\ Throw(r, "generateDockerCompose TypeError")
            /\ UNCHANGED <<workDir, fsLog, svcIdx>>
       ELSE /\ Logged(r, "write docker-compose.yml")
            /\ \E ok \in BOOLEAN :
                  IF ok
                  THEN /\ Written(r, "docker-compose.yml")
                       /\ svcIdx' = [svcIdx EXCEPT ![r] = 1]
                       /\ pc' = [pc EXCEPT ![r] = AfterServices(gpArgs[r], 1)]
                       /\ UNCHANGED failedStep
                  ELSE /\ Throw(r, "generateDockerCompose")
                       /\ UNCHANGED <<workDir, svcIdx>>
    /\ UNCHANGED <<req, projectId, gpArgs, validation, response, archive, timer, crashed>>
    /\ UNCHANGED pureVars

\* one round of: for (const service of services) await this.generateService(...)
GpService(r) ==
    /\ ~crashed
    /\ pc[r] = "gp:service"
    /\ Logged(r, "write service")
    /\ \E ok \in BOOLEAN :
          IF ok
          THEN /\ Written(r, ServiceDirName(gpArgs[r].services[svcIdx[r]]))
               /\ svcIdx' = [svcIdx EXCEPT ![r] = @ + 1]
               /\ pc' = [pc EXCEPT ![r] = AfterServices(gpArgs[r], svcIdx[r] + 1)]
               /\ UNCHANGED failedStep
          ELSE Throw(r, "generateService") /\ UNCHANGED <<workDir, svcIdx>>
    /\ UNCHANGED <<req, projectId, gpArgs, validation, response, archive, timer, crashed>>
    /\ UNCHANGED pureVars

\* await this.generateReadme(projectDir, {...})
GpReadme(r) ==
    /\ ~crashed
    /\ pc[r] = "gp:readme"
    /\ Logged(r, "write README.md")
    /\ \E ok \in BOOLEAN :
          IF ok
          THEN /\ Written(r, "README.md")
               /\ pc' = [pc EXCEPT ![r] = "gp:env"]
               /\ UNCHANGED failedStep
          ELSE Throw(r, "generateReadme") /\ UNCHANGED workDir
    /\ UNCHANGED <<req, projectId, gpArgs, validation, response, archive, svcIdx, timer, crashed>>
    /\ UNCHANGED pureVars

\* await this.generateEnvExample(projectDir, services)
GpEnvExample(r) ==
    /\ ~crashed
    /\ pc[r] = "gp:env"
    /\ Logged(r, "write .env.example")
    /\ \E ok \in BOOLEAN :
          IF ok
          THEN /\ Written(r, ".env.example")
               /\ pc' = [pc EXCEPT ![r] = "gp:zip"]
               /\ UNCHANGED failedStep
          ELSE Throw(r, "generateEnvExample") /\ UNCHANGED workDir
    /\ UNCHANGED <<req, projectId, gpArgs, validation, response, archive, svcIdx, timer, crashed>>
    /\ UNCHANGED pureVars

\* zipProject up to archive.finalize(): the output file is opened and the
\* archiver starts streaming the tree into it
GpZipStart(r) ==
    /\ ~crashed
    /\ pc[r] = "gp:zip"
    /\ Logged(r, "createWriteStream zip")
    /\ archive' = [archive EXCEPT ![r] = "partial"]
    /\ pc' = [pc EXCEPT ![r] = "gp:zipping"]
    /\ UNCHANGED <<req, projectId, gpArgs, validation, response, workDir, failedStep, svcIdx, timer,
                   crashed>>
    /\ UNCHANGED pureVars

\* output.on('close', () => resolve(zipPath)) after a complete write
GpZipClose(r) ==
    /\ ~crashed
    /\ pc[r] = "gp:zipping"
    /\ archive' = [archive EXCEPT ![r] = "complete"]
    /\ pc' = [pc EXCEPT ![r] = "gp:stat"]
    /\ UNCHANGED <<req, projectId, gpArgs, validation, response, workDir, fsLog, failedStep, svcIdx,
                   timer, crashed>>
    /\ UNCHANGED pureVars

\* archive.on('error', reject): an error of the archiver rejects the promise
GpZipArchiveError(r) ==
    /\ ~crashed
    /\ pc[r] = "gp:zipping"
    /\ Throw(r, "zipProject")
    /\ UNCHANGED <<req, projectId, gpArgs, validation, response, workDir, archive, fsLog, svcIdx,
                   timer, crashed>>
    /\ UNCHANGED pureVars

\* An error of the output file stream, on which zipProject registers no
\* 'error' listener. Depending on the stream library behind archive.pipe,
\* either the unhandled 'error' event ends the process, or the pipe absorbs
\* it and the 'close' that follows resolves the promise over a partial file.
GpZipOutputError(r) ==
    /\ ~crashed
    /\ pc[r] = "gp:zipping"
    /\ failedStep' = [failedStep EXCEPT ![r] = "zipProject output"]
    /\ \E outcome \in {"unhandled", "absorbed"} :
          IF outcome = "unhandled"
          THEN crashed' = TRUE /\ UNCHANGED pc
          ELSE pc' = [pc EXCEPT ![r] = "gp:stat"] /\ UNCHANGED crashed
    /\ UNCHANGED <<req, projectId, gpArgs, validation, response, workDir, archive, fsLog, svcIdx,
                   timer>>
    /\ UNCHANGED pureVars

\* fs.stat(zipPath), createReadStream, setTimeout(cleanup, 5000), return
GpStatAndReturn(r) ==
    /\ ~crashed
    /\ pc[r] = "gp:stat"
    /\ Logged(r, "stat zip")
    /\ \E ok \in BOOLEAN :
          IF ok
          THEN /\ timer' = [timer EXCEPT ![r] = TRUE]
               /\ pc' = [pc EXCEPT ![r] = "gp:returned"]
               /\ UNCHANGED failedStep
          ELSE Throw(r, "stat") /\ UNCHANGED timer
    /\ UNCHANGED <<req, projectId, gpArgs, validation, response, workDir, archive, svcIdx, crashed>>
    /\ UNCHANGED pureVars

\* The error a call has thrown, "none" when it returned
NoError == "none"

\* cleanup without its try/catch: a failing fs.rm rejects the call
cleanupNoCatch(dir, rmOk) ==
    IF rmOk
    THEN [dir |-> [dir EXCEPT !.exists = FALSE, !.files = {}], error |-> NoError]
    ELSE [dir |-> dir, error |-> "cleanup"]

\* cleanup(projectDir, zipPath): fs.rm of the working directory, any error
\* of it caught, logged and swallowed; the archive file is kept. Gives the
\* directory afterwards and the error the call threw.
cleanup(dir, rmOk) ==
    IF rmOk
    THEN [dir |-> [dir EXCEPT !.exists = FALSE, !.files = {}], error |-> NoError]
    ELSE [dir |-> dir, error |-> NoError]

\* catch (error) { await this.cleanup(projectDir); throw error; }
GpCatch(r) ==
    /\ ~crashed
    /\ pc[r] = "gp:catch"
    /\ Logged(r, "rm projectDir")
    /\ \E rmOk \in BOOLEAN :
          LET done == cleanup(workDir[projectId[r]], rmOk)
          IN  /\ workDir' = [workDir EXCEPT ![projectId[r]] = Touched(done.dir, r)]
              /\ failedStep' = [failedStep EXCEPT ![r] =
                                    IF done.error = NoError THEN @ ELSE done.error]
    /\ pc' = [pc EXCEPT ![r] = "gp:thrown"]
    /\ UNCHANGED <<req, projectId, gpArgs, validation, response, archive, svcIdx, timer,
                   crashed>>
    /\ UNCHANGED pureVars

\* setTimeout(() => this.cleanup(projectDir, zipPath), 5000) fires
DeferredCleanup(r) ==
    /\ ~crashed
    /\ timer[r]
    /\ timer' = [timer EXCEPT ![r] = FALSE]
    /\ Logged(r, "rm projectDir")
    /\ \E rmOk \in BOOLEAN :
          workDir' = [workDir EXCEPT ![projectId[r]] = Touched(cleanup(@, rmOk).dir, r)]
    /\ UNCHANGED <<req, projectId, pc, gpArgs, validation, response, archive, failedStep, svcIdx,
                   crashed>>
    /\ UNCHANGED pureVars

\* generateProject returned: the handler sends the archive (or its JSON)
RespondSuccess(r) ==
    /\ ~crashed
    /\ pc[r] = "gp:returned"
    /\ Reply(r, IF req[r].entry = "api-generate" THEN "200-zip" ELSE "200-json")
    /\ UNCHANGED <<req, projectId, gpArgs, validation, workDir, archive, fsLog, failedStep, svcIdx,
                   timer, crashed>>
    /\ UNCHANGED pureVars

\* generateProject threw: the handler's catch block answers 500
RespondError(r) ==
    /\ ~crashed
    /\ pc[r] = "gp:thrown"
    /\ Reply(r, "500")
    /\ UNCHANGED <<req, projectId, gpArgs, validation, workDir, archive, fsLog, failedStep, svcIdx,
                   timer, crashed>>
    /\ UNCHANGED pureVars

Next ==
    \E r \in Requests :
        \/ Submit(r)
        \/ ApiGenerate(r)
        \/ AiParse(r)
        \/ AiValidate(r)
        \/ AiEnhance(r)
        \/ McpGenerate(r)
        \/ GpEnsureDirectories(r)
        \/ GpMkdir(r)
        \/ GpCompose(r)
        \/ GpService(r)
        \/ GpReadme(r)
        \/ GpEnvExample(r)
        \/ GpZipStart(r)
        \/ GpZipClose(r)
        \/ GpZipArchiveError(r)
        \/ GpZipOutputError(r)
        \/ GpStatAndReturn(r)
        \/ GpCatch(r)
        \/ DeferredCleanup(r)
        \/ RespondSuccess(r)
        \/ RespondError(r)

Spec == Init /\ [][Next]_vars

----------------------------------------------------------------------------
(* BuilderService.generateDockerCompose applied to a blueprint *)

\* The characters of the service types of the model
TypeChars ==
    ("node" :> <<"n", "o", "d", "e">>)
    @@ ("postgresql" :> <<"p", "o", "s", "t", "g", "r", "e", "s", "q", "l">>)
    @@ ("mongodb" :> <<"m", "o", "n", "g", "o", "d", "b">>)
    @@ ("redis" :> <<"r", "e", "d", "i", "s">>)
    @@ ("react" :> <<"r", "e", "a", "c", "t">>)
    @@ ("python-flask" :> <<"p", "y", "t", "h", "o", "n", "-", "f", "l", "a", "s", "k">>)
    @@ ("custom" :> <<"c", "u", "s", "t", "o", "m">>)

\* service.label || service.type, for a service that carries one of the two
LabelOrType(service) ==
    IF LabelTruthy(service) THEN service.label ELSE TypeChars[service.type]

\* The arguments generateDockerCompose hands findDependencies for a service
DepArgsOf(service, args) ==
    IF Has(args, "connections")
    THEN [serviceId |-> Field(service, "id"), connections |-> args.connections,
          allServices |-> args.services]
    ELSE [serviceId |-> Field(service, "id"), allServices |-> args.services]

\* Every service made to depend on every service of the blueprint
ServiceConfigsDependOnAll(args) ==
    [i \in 1..Len(args.services) |->
        Put(Put(args.services[i], "dependsOn", args.services),
            "sanitizedName", sanitizeName(LabelOrType(args.services[i])))]

\* serviceConfigs: { ...service, dependsOn, sanitizedName } for every service
ServiceConfigs(args) ==
    [i \in 1..Len(args.services) |->
        Put(Put(args.services[i],
                "dependsOn", findDependencies(DepArgsOf(args.services[i], args)).list),
            "sanitizedName", sanitizeName(LabelOrType(args.services[i])))]

\* docker-compose.yml.ejs, which is not part of the sources at hand; after
\* the specification of the synthesizer: one entry per service, keyed by its
\* sanitized name, with a start-after list of the sanitized names of its
\* dependencies
RenderComposeTemplate(serviceConfigs) ==
    [i \in 1..Len(serviceConfigs) |->
        [key |-> serviceConfigs[i].sanitizedName,
         startAfter |->
            [k \in 1..Len(serviceConfigs[i].dependsOn) |->
                sanitizeName(LabelOrType(serviceConfigs[i].dependsOn[k]))]]]

\* generateDockerCompose(projectDir, { projectName, services, connections, metadata })
generateDockerCompose(args) ==
    IF ComposeTypeError(args)
    THEN [outcome |-> "TypeError"]
    ELSE [outcome |-> "rendered",
          projectName |-> sanitizeName(args.projectName),
          services |-> ServiceConfigs(args),
          descriptor |-> RenderComposeTemplate(ServiceConfigs(args))]

SvcApiLabelled == [id |-> "api", type |-> "node", label |-> <<"a", "p", "i">>]
SvcApiPlain == [id |-> "api", type |-> "node"]
SvcWebPlain == [id |-> "web", type |-> "node"]
SvcDb == [id |-> "db", type |-> "postgresql", label |-> <<"d", "b">>]
SvcDbUpper == [id |-> "db2", type |-> "mongodb", label |-> <<"D", "B">>]
SvcNoLabelNoType == [id |-> "x"]

ComposeNodes == {SvcApiLabelled, SvcApiPlain, SvcWebPlain, SvcDb, SvcDbUpper, SvcNoLabelNoType}

ComposeConnections ==
    {[source |-> "api", target |-> "db"],
     [source |-> "api", target |-> "db2"],
     [source |-> "web", target |-> "db"],
     [source |-> "api", target |-> "ghost"]}

ComposeArgs(n, m) ==
    {[projectName |-> MyCoolApp, services |-> sv, connections |-> c, metadata |-> EmptyObj] :
        sv \in SeqsUpTo(ComposeNodes, n), c \in SeqsUpTo(ComposeConnections, m)}

InitCompose ==
    /\ PipeIdle
    /\ blueprint = EmptyObj
    /\ PureIdle
    /\ DepsIdle
    /\ NamesIdle
    /\ ZipIdle
    /\ RenderIdle
    /\ AiIdle
    /\ HandleIdle
    /\ cArgs \in ComposeArgs(MaxServices, MaxConnections)
    /\ cResult = NoResult

Compose ==
    /\ cResult = NoResult
    /\ cResult' = generateDockerCompose(cArgs)
    /\ UNCHANGED <<mcpVars, depVars, nameVars, zipVars, renderVars, aiVars, handleVars, cArgs>>
    /\ UNCHANGED pipeVars

NextCompose == Compose

SpecCompose == InitCompose /\ [][NextCompose]_vars

----------------------------------------------------------------------------
(* BuilderService.generateService applied to one service of a blueprint *)

\* What templatesDir holds for a type: no directory, or a directory and the
\* files fs.readdir lists in it
NoTemplateDir == [exists |-> FALSE, files |-> <<>>]

TemplateDirs ==
    {NoTemplateDir,
     [exists |-> TRUE, files |-> <<>>],
     [exists |-> TRUE, files |-> <<"Dockerfile.ejs">>],
     [exists |-> TRUE, files |-> <<"package.json">>],
     [exists |-> TRUE, files |-> <<"Dockerfile.ejs", "package.json", "server.js.ejs">>]}

\* file.name.replace('.ejs', '')
TargetName ==
    ("Dockerfile.ejs" :> "Dockerfile") @@ ("package.json" :> "package.json")
    @@ ("server.js.ejs" :> "server.js")

\* What a template file puts into its target: the rendering of an .ejs file,
\* the copy of any other (package.json: the packages the template declares)
TemplateContent ==
    ("Dockerfile.ejs" :> {"rendered Dockerfile.ejs"}) @@ ("package.json" :> {"express"})
    @@ ("server.js.ejs" :> {"rendered server.js.ejs"})

\* copyTemplateFiles when the first k files of the directory are written and
\* file k + 1, if there is one, fails with fault: the catch around the whole
\* body logs and returns
copyTemplateFiles(files, templates, k, fault) ==
    IF ~templates.exists
    THEN [files |-> files, error |-> NoError, swallowed |-> {"readdir"}]
    ELSE
        LET written == {TargetName[templates.files[i]] : i \in 1..k}
            SourceOf(t) == CHOOSE n \in ElementsOf(SubSeq(templates.files, 1, k)) :
                               TargetName[n] = t
        IN  [files |-> [t \in DOMAIN files \cup written |->
                           IF t \in written THEN TemplateContent[SourceOf(t)] ELSE files[t]],
             error |-> NoError,
             swallowed |-> IF k < Len(templates.files) THEN {fault} ELSE {}]

\* const dockerfiles = { node, react, python-flask, python-fastapi }
DefaultDockerfiles ==
    ("node" :> {"FROM node:18-alpine EXPOSE 5000 CMD npm start"})
    @@ ("react" :> {"FROM node:18-alpine EXPOSE 3000 CMD npm start"})
    @@ ("python-flask" :> {"FROM python:3.11-slim EXPOSE 5000 CMD python app.py"})
    @@ ("python-fastapi" :> {"FROM python:3.11-slim EXPOSE 8000 CMD uvicorn"})

AlpineDockerfile == {"FROM alpine:latest CMD echo Service ready"}

\* getDefaultDockerfile(type)
getDefaultDockerfile(type) ==
    IF type \in DOMAIN DefaultDockerfiles THEN DefaultDockerfiles[type] ELSE AlpineDockerfile

DockerfileFaults == {"none", "render", "write", "both writes"}

\* The Dockerfile template of the type is there to be rendered
HasDockerfileTemplate(templates) ==
    templates.exists /\ "Dockerfile.ejs" \in ElementsOf(templates.files)

\* A failure inside the try block throws out of generateDockerfile
generateDockerfileNoFallback(files, service, templates, fault) ==
    IF HasDockerfileTemplate(templates) /\ fault = "none"
    THEN [files |-> Put(files, "Dockerfile", TemplateContent["Dockerfile.ejs"]),
          error |-> NoError, swallowed |-> {}]
    ELSE [files |-> files, error |-> "Dockerfile render", swallowed |-> {}]

\* generateDockerfile(serviceDir, service): render and write the template;
\* on any error in that, write the default
generateDockerfile(files, service, templates, fault) ==
    IF HasDockerfileTemplate(templates) /\ fault = "none"
    THEN [files |-> Put(files, "Dockerfile", TemplateContent["Dockerfile.ejs"]),
          error |-> NoError, swallowed |-> {}]
    ELSE IF fault = "both writes"
    THEN [files |-> files, error |-> "generateDockerfile", swallowed |-> {}]
    ELSE [files |-> Put(files, "Dockerfile", getDefaultDockerfile(service.type)),
          error |-> NoError,
          swallowed |-> IF HasDockerfileTemplate(templates) /\ fault = "write"
                        THEN {"Dockerfile write"} ELSE {"Dockerfile render"}]

DbTypes == {"mongodb", "postgresql", "mysql"}
ApiTypes == {"node", "python-flask", "python-fastapi"}

\* dependencies.find(d => types.includes(d.type))
FindOfType(dependencies, types) ==
    LET hits == {k \in 1..Len(dependencies) : Field(dependencies[k], "type") \in types}
    IN  IF hits = {} THEN [found |-> FALSE]
        ELSE [found |-> TRUE,
              dep |-> dependencies[CHOOSE k \in hits : \A j \in hits : k <= j]]

\* the package pushed for the database found
DbPackage == ("mongodb" :> "mongoose") @@ ("postgresql" :> "pg") @@ ("mysql" :> "mysql2")

\* getMongooseConnectionCode / getPostgresConnectionCode / getMySQLConnectionCode
DbConnectionCode ==
    ("mongodb" :> "mongoose.connect(mongoUri)") @@ ("postgresql" :> "new Pool({ host })")
    @@ ("mysql" :> "mysql.createPool({ host })")

\* generateNodeConfig(serviceDir, service, dependencies): connectionCode is
\* built and returned to no one; package.json is updated if it can be read
generateNodeConfig(files, dependencies, writeOk) ==
    LET dbDep == FindOfType(dependencies, DbTypes)
        redisDep == FindOfType(dependencies, {"redis"})
        requiredPackages ==
            {"express", "dotenv", "cors"}
            \cup (IF dbDep.found THEN {DbPackage[dbDep.dep.type]} ELSE {})
            \cup (IF redisDep.found THEN {"redis"} ELSE {})
        connectionCode ==
            (IF dbDep.found THEN {DbConnectionCode[dbDep.dep.type]} ELSE {})
            \cup (IF redisDep.found THEN {"redis.createClient({ url })"} ELSE {})
    IN  IF \/ dbDep.found /\ ~Has(dbDep.dep, "label")
           \/ redisDep.found /\ ~Has(redisDep.dep, "label")
        THEN [files |-> files, error |-> "TypeError", swallowed |-> {},
              connectionCode |-> {}]
        ELSE IF ~Has(files, "package.json")
        THEN [files |-> files, error |-> NoError, swallowed |-> {"package.json read"},
              connectionCode |-> connectionCode]
        ELSE IF writeOk
        THEN [files |-> Put(files, "package.json", files["package.json"] \cup requiredPackages),
              error |-> NoError, swallowed |-> {}, connectionCode |-> connectionCode]
        ELSE [files |-> files, error |-> NoError, swallowed |-> {"package.json write"},
              connectionCode |-> connectionCode]

DbRequirement ==
    ("mongodb" :> "pymongo") @@ ("postgresql" :> "psycopg2-binary")
    @@ ("mysql" :> "mysql-connector-python")

\* generatePythonConfig(serviceDir, service, dependencies)
generatePythonConfig(files, service, dependencies, writeOk) ==
    LET dbDep == FindOfType(dependencies, DbTypes)
        requirements ==
            (IF service.type = "python-flask"
             THEN {"Flask", "python-dotenv", "flask-cors"}
             ELSE {"fastapi", "uvicorn", "python-dotenv"})
            \cup (IF dbDep.found THEN {DbRequirement[dbDep.dep.type]} ELSE {})
    IN  IF writeOk
        THEN [files |-> Put(files, "requirements.txt", requirements),
              error |-> NoError, swallowed |-> {}]
        ELSE [files |-> files, error |-> "requirements.txt write", swallowed |-> {}]

\* generateFrontendConfig(serviceDir, service, dependencies)
generateFrontendConfig(files, dependencies, writeOk) ==
    LET apiDep == FindOfType(dependencies, ApiTypes)
    IN  IF ~apiDep.found
        THEN [files |-> files, error |-> NoError, swallowed |-> {}]
        ELSE IF ~Has(apiDep.dep, "label")
        THEN [files |-> files, error |-> "TypeError", swallowed |-> {}]
        ELSE IF writeOk
        THEN [files |-> Put(files, ".env.example", {"REACT_APP_API_URL"}),
              error |-> NoError, swallowed |-> {}]
        ELSE [files |-> files, error |-> ".env.example write", swallowed |-> {}]

\* generateServiceConfig(serviceDir, service, connections, allServices)
generateServiceConfig(files, args, writeOk) ==
    LET dependencies == findDependencies(DepArgsOf(args.service, args)).list
        done == generateNodeConfig(files, dependencies, writeOk)
    IN  CASE args.service.type = "node" ->
                [files |-> done.files, error |-> done.error, swallowed |-> done.swallowed]
          [] args.service.type \in {"python-flask", "python-fastapi"} ->
                generatePythonConfig(files, args.service, dependencies, writeOk)
          [] args.service.type \in {"react", "vue", "angular"} ->
                generateFrontendConfig(files, dependencies, writeOk)
          [] OTHER -> [files |-> files, error |-> NoError, swallowed |-> {}]

RenderNodes ==
    <<[id |-> "api", type |-> "node", label |-> <<"a", "p", "i">>],
     [id |-> "web", type |-> "react", label |-> <<"w", "e", "b">>],
     [id |-> "svc", type |-> "python-flask"],
     [id |-> "db", type |-> "postgresql", label |-> <<"d", "b">>],
     [id |-> "mongo", type |-> "mongodb"],
     [id |-> "job", type |-> "custom"],
     [id |-> "x", label |-> <<"x">>]>>

RenderConnections ==
    {[source |-> "api", target |-> "db"],
     [source |-> "api", target |-> "mongo"],
     [source |-> "web", target |-> "api"],
     [source |-> "svc", target |-> "db"],
     [source |-> "api", target |-> "ghost"]}

\* generateService(projectDir, service, connections, allServices) for one
\* service of the blueprint RenderNodes, and the template set of its type
RenderArgs(m) ==
    {[service |-> sv, connections |-> c, services |-> RenderNodes, templates |-> t] :
        sv \in ElementsOf(RenderNodes),
        c \in SeqsUpTo(RenderConnections, m),
        t \in TemplateDirs}

InitRender ==
    /\ PipeIdle
    /\ blueprint = EmptyObj
    /\ PureIdle
    /\ DepsIdle
    /\ NamesIdle
    /\ ZipIdle
    /\ ComposeIdle
    /\ AiIdle
    /\ HandleIdle
    /\ gArgs \in RenderArgs(MaxConnections)
    /\ gPc = "mkdir"
    /\ gFiles = EmptyObj
    /\ gError = NoError
    /\ gSwallowed = {}

GsThrow(error) ==
    /\ gPc' = "thrown"
    /\ gError' = error
    /\ UNCHANGED <<gFiles, gSwallowed>>

\* const serviceDir = ...; await fs.mkdir(serviceDir); const templateDir = ...
GsMkdir ==
    /\ gPc = "mkdir"
    /\ IF NoLabelNoType(gArgs.service)
       THEN GsThrow("TypeError")
       ELSE \E ok \in BOOLEAN :
               IF ~ok THEN GsThrow("mkdir")
               ELSE IF ~Has(gArgs.service, "type") THEN GsThrow("TypeError")
               ELSE gPc' = "copy" /\ UNCHANGED <<gFiles, gError, gSwallowed>>
    /\ UNCHANGED <<mcpVars, depVars, nameVars, zipVars, composeVars, aiVars, handleVars, gArgs>>
    /\ UNCHANGED pipeVars

\* await this.copyTemplateFiles(templateDir, serviceDir, ...)
GsCopyTemplateFiles ==
    /\ gPc = "copy"
    /\ \E k \in 0..Len(gArgs.templates.files), fault \in {"template render", "template write"} :
          LET done == copyTemplateFiles(gFiles, gArgs.templates, k, fault)
          IN  /\ (k < Len(gArgs.templates.files) /\ fault = "template render")
                     => gArgs.templates.files[k + 1] # "package.json"
              /\ gFiles' = done.files
              /\ gSwallowed' = gSwallowed \cup done.swallowed
    /\ gPc' = "dockerfile"
    /\ UNCHANGED <<mcpVars, depVars, nameVars, zipVars, composeVars, aiVars, handleVars, gArgs, gError>>
    /\ UNCHANGED pipeVars

\* await this.generateDockerfile(serviceDir, service)
GsDockerfile ==
    /\ gPc = "dockerfile"
    /\ \E fault \in DockerfileFaults :
          LET done == generateDockerfile(gFiles, gArgs.service, gArgs.templates, fault)
          IN  IF done.error = NoError
              THEN /\ gFiles' = done.files
                   /\ gSwallowed' = gSwallowed \cup done.swallowed
                   /\ gPc' = "config"
                   /\ UNCHANGED gError
              ELSE GsThrow(done.error)
    /\ UNCHANGED <<mcpVars, depVars, nameVars, zipVars, composeVars, aiVars, handleVars, gArgs>>
    /\ UNCHANGED pipeVars

\* await this.generateServiceConfig(serviceDir, service, connections, allServices)
GsConfig ==
    /\ gPc = "config"
    /\ \E writeOk \in BOOLEAN :
          LET done == generateServiceConfig(gFiles, gArgs, writeOk)
          IN  IF done.error = NoError
              THEN /\ gFiles' = done.files
                   /\ gSwallowed' = gSwallowed \cup done.swallowed
                   /\ gPc' = "done"
                   /\ UNCHANGED gError
              ELSE GsThrow(done.error)
    /\ UNCHANGED <<mcpVars, depVars, nameVars, zipVars, composeVars, aiVars, handleVars, gArgs>>
    /\ UNCHANGED pipeVars

NextRender == GsMkdir \/ GsCopyTemplateFiles \/ GsDockerfile \/ GsConfig

SpecRender == InitRender /\ [][NextRender]_vars

----------------------------------------------------------------------------
(* MCPService.handleRequest applied to a request *)

\* this.supportedOperations
supportedOperations == <<"parse", "generate", "validate", "enhance", "suggest", "export">>

\* What a handler calls outside MCPService
HandlerSteps ==
    [parseNaturalLanguage |-> {"aiService.parsePromptToBlueprint"},
     generateBlueprint |-> {"builderService.generateProject"},
     validateBlueprint |-> {},
     enhanceBlueprint |-> {"aiService.generateSuggestions"},
     suggestImprovements |-> {},
     exportConfiguration |-> {}]

\* return await this.<handler>(payload, ...): the handler returns or throws
Dispatch(handler, handlerOk) ==
    [outcome |-> IF handlerOk THEN "returned" ELSE "thrown",
     error |-> IF handlerOk THEN NoError ELSE handler,
     handlers |-> <<handler>>,
     steps |-> HandlerSteps[handler]]

\* The default case hands the request to generateBlueprint
handleRequestDefaultGenerates(request, handlerOk) ==
    LET operation == Field(request, "operation")
    IN  CASE operation = "parse" -> Dispatch("parseNaturalLanguage", handlerOk)
          [] operation = "generate" -> Dispatch("generateBlueprint", handlerOk)
          [] operation = "validate" -> Dispatch("validateBlueprint", handlerOk)
          [] operation = "enhance" -> Dispatch("enhanceBlueprint", handlerOk)
          [] operation = "suggest" -> Dispatch("suggestImprovements", handlerOk)
          [] operation = "export" -> Dispatch("exportConfiguration", handlerOk)
          [] OTHER -> Dispatch("generateBlueprint", handlerOk)

\* handleRequest(request): switch (operation)
handleRequest(request, handlerOk) ==
    LET operation == Field(request, "operation")
    IN  CASE operation = "parse" -> Dispatch("parseNaturalLanguage", handlerOk)
          [] operation = "generate" -> Dispatch("generateBlueprint", handlerOk)
          [] operation = "validate" -> Dispatch("validateBlueprint", handlerOk)
          [] operation = "enhance" -> Dispatch("enhanceBlueprint", handlerOk)
          [] operation = "suggest" -> Dispatch("suggestImprovements", handlerOk)
          [] operation = "export" -> Dispatch("exportConfiguration", handlerOk)
          [] OTHER -> [outcome |-> "thrown", error |-> "Unsupported operation",
                       handlers |-> <<>>, steps |-> {}]

\* Operation names a caller can send: the six of the switch, names that
\* differ from them in case or spelling, and the empty string
OperationNames ==
    ElementsOf(supportedOperations) \cup {"Parse", "generate ", "delete", "deploy", ""}

HandlePayloads ==
    {[prompt |-> "api with db"],
     [services |-> <<>>, connections |-> <<>>],
     [services |-> <<[id |-> "api", type |-> "node"]>>, connections |-> <<>>]}

\* { operation, payload, context }, each of which a caller may leave out
HandleRequests ==
    {[operation |-> o, payload |-> p] : o \in OperationNames, p \in HandlePayloads}
    \cup {[operation |-> o, payload |-> p, context |-> EmptyObj] :
            o \in OperationNames, p \in HandlePayloads}
    \cup {[payload |-> p] : p \in HandlePayloads}
    \cup {[operation |-> o] : o \in OperationNames}

InitHandle ==
    /\ PipeIdle
    /\ blueprint = EmptyObj
    /\ PureIdle
    /\ DepsIdle
    /\ NamesIdle
    /\ ZipIdle
    /\ ComposeIdle
    /\ RenderIdle
    /\ AiIdle
    /\ hRequest \in HandleRequests
    /\ hResult = NoResult

Handle ==
    /\ hResult = NoResult
    /\ \E handlerOk \in BOOLEAN : hResult' = handleRequest(hRequest, handlerOk)
    /\ UNCHANGED <<mcpVars, depVars, nameVars, zipVars, composeVars, renderVars, aiVars, hRequest>>
    /\ UNCHANGED pipeVars

NextHandle == Handle

SpecHandle == InitHandle /\ [][NextHandle]_vars

----------------------------------------------------------------------------
(* AIService.validateAndEnhanceBlueprint applied to a raw blueprint *)

\* The values a port takes in the JSON the model returned: null or a number
JsNull == [kind |-> "null"]
JsNumber(n) == [kind |-> "number", value |-> n]

\* !!value for a port value
JsTruthy(v) == v.kind = "number" /\ v.value # 0

\* const defaults = { react: 3000, ... }; return defaults[type] || 8080
getDefaultPort(type) ==
    LET defaults ==
            [react |-> 3000, vue |-> 8080, angular |-> 4200, node |-> 5000, python |-> 8000,
             mongodb |-> 27017, postgresql |-> 5432, mysql |-> 3306, redis |-> 6379]
    IN  IF type \in DOMAIN defaults THEN defaults[type] ELSE 8080

\* { ...base, ...over }
Spread(base, over) ==
    [k \in DOMAIN base \cup DOMAIN over |-> IF k \in DOMAIN over THEN over[k] ELSE base[k]]

\* `service-${uuidv4()}` for the service at index i
GeneratedId == <<"service-u1", "service-u2", "service-u3", "service-u4">>

\* One element of enhanced.services.map((service, index) => ({ ... }))
EnhancedService(service, i) ==
    [id |-> IF Has(service, "id") /\ service.id # "" THEN service.id ELSE GeneratedId[i],
     type |-> Field(service, "type"),
     name |-> IF Has(service, "name") /\ service.name # ""
              THEN [text |-> service.name]
              ELSE [type |-> Field(service, "type"), index |-> i],
     config |->
        Spread([port |-> IF Has(ConfigOf(service), "port") /\ JsTruthy(ConfigOf(service).port)
                         THEN ConfigOf(service).port
                         ELSE JsNumber(getDefaultPort(Field(service, "type"))),
                environment |-> IF Has(ConfigOf(service), "environment")
                                THEN ConfigOf(service).environment ELSE EmptyObj,
                volumes |-> IF Has(ConfigOf(service), "volumes")
                            THEN ConfigOf(service).volumes ELSE <<>>],
               ConfigOf(service)),
     position |-> IF Has(service, "position") THEN service.position
                  ELSE [x |-> (i - 1) * 250, y |-> 100]]

\* connections.filter(conn => serviceIds.has(conn.source) && serviceIds.has(conn.target)),
\* from connection k on
RECURSIVE KeepConnections(_, _, _)
KeepConnections(connections, serviceIds, k) ==
    IF k > Len(connections) THEN <<>>
    ELSE
        LET conn == connections[k]
            rest == KeepConnections(connections, serviceIds, k + 1)
        IN  IF Has(conn, "source") /\ conn.source \in serviceIds
               /\ Has(conn, "target") /\ conn.target \in serviceIds
            THEN <<conn>> \o rest
            ELSE rest

\* validateAndEnhanceBlueprint(blueprint)
validateAndEnhanceBlueprint(raw) ==
    LET rawServices == IF Has(raw, "services") THEN raw.services ELSE <<>>
        rawConnections == IF Has(raw, "connections") THEN raw.connections ELSE <<>>
        services == [i \in 1..Len(rawServices) |-> EnhancedService(rawServices[i], i)]
        serviceIds == {services[i].id : i \in 1..Len(services)}
    IN  [outcome |-> "returned",
         blueprint |->
            [services |-> services,
             connections |-> KeepConnections(rawConnections, serviceIds, 1),
             metadata |-> IF Has(raw, "metadata") THEN raw.metadata
                          ELSE [name |-> "Generated Project", description |-> ""]]]

AiNodes ==
    {[id |-> "api", type |-> "node", config |-> [port |-> JsNumber(3000)]],
     [id |-> "db", type |-> "postgresql"],
     [id |-> "web", type |-> "react", config |-> EmptyObj],
     [type |-> "redis", config |-> [port |-> JsNull]],
     [id |-> "job", type |-> "custom", config |-> [port |-> JsNumber(0)]]}

AiConnections ==
    {[source |-> "api", target |-> "db"],
     [source |-> "web", target |-> "api"],
     [source |-> "api", target |-> "ghost"],
     [source |-> "api"]}

\* JSON.parse of the model's answer: services and connections may be missing
AiRaw(n, m) ==
    {[services |-> sv, connections |-> c] :
        sv \in SeqsUpTo(AiNodes, n), c \in SeqsUpTo(AiConnections, m)}
    \cup {[services |-> sv] : sv \in SeqsUpTo(AiNodes, n)}
    \cup {[connections |-> c] : c \in SeqsUpTo(AiConnections, m)}

InitAi ==
    /\ PipeIdle
    /\ blueprint = EmptyObj
    /\ PureIdle
    /\ DepsIdle
    /\ NamesIdle
    /\ ZipIdle
    /\ ComposeIdle
    /\ RenderIdle
    /\ HandleIdle
    /\ aRaw \in AiRaw(MaxServices, MaxConnections)
    /\ aResult = NoResult

ValidateAndEnhance ==
    /\ aResult = NoResult
    /\ aResult' = validateAndEnhanceBlueprint(aRaw)
    /\ UNCHANGED <<mcpVars, depVars, nameVars, zipVars, composeVars, renderVars, handleVars, aRaw>>
    /\ UNCHANGED pipeVars

NextAi == ValidateAndEnhance

SpecAi == InitAi /\ [][NextAi]_vars

----------------------------------------------------------------------------
(* Concurrent calls of zipProject and the stream generateProject returns *)

MaxClock == 2

\* Project names that sanitize to the same string, and one that does not
ZipProjectNames ==
    {MyCoolApp,
     <<"m", "y", "-", "c", "o", "o", "l", "-", "a", "p", "p">>,
     <<"a">>}

NoPath == [name |-> <<>>, time |-> 0]

\* `${this.sanitizeName(projectName)}_${Date.now()}.zip` under generatedDir
ZipPath(projectName, now) == [name |-> sanitizeName(projectName), time |-> now]

InitZip ==
    /\ PipeIdle
    /\ blueprint = EmptyObj
    /\ PureIdle
    /\ DepsIdle
    /\ NamesIdle
    /\ ComposeIdle
    /\ RenderIdle
    /\ AiIdle
    /\ HandleIdle
    /\ zCalls \in [Requests -> {[pc |-> "zip", projectName |-> n, zipPath |-> NoPath, stream |-> {}] :
                                  n \in ZipProjectNames}]
    /\ zFiles = EmptyObj
    /\ zNow = 1

\* The clock moves on by a millisecond
ZipTick ==
    /\ zNow < MaxClock
    /\ zNow' = zNow + 1
    /\ UNCHANGED <<zCalls, zFiles>>
    /\ UNCHANGED <<mcpVars, depVars, nameVars, composeVars, renderVars, aiVars, handleVars>>
    /\ UNCHANGED pipeVars

\* const zipPath = ...; const output = require('fs').createWriteStream(zipPath):
\* the file is created, or truncated if it is there
ZipOpen(r) ==
    /\ zCalls[r].pc = "zip"
    /\ LET zipPath == ZipPath(zCalls[r].projectName, zNow)
       IN  /\ zCalls' = [zCalls EXCEPT ![r].pc = "zipping", ![r].zipPath = zipPath]
           /\ zFiles' = Put(zFiles, zipPath, {})
    /\ UNCHANGED zNow
    /\ UNCHANGED <<mcpVars, depVars, nameVars, composeVars, renderVars, aiVars, handleVars>>
    /\ UNCHANGED pipeVars

\* archive.pipe(output); archive.directory(projectDir, false); archive.finalize();
\* output 'close' resolves with zipPath
ZipWriteAndClose(r) ==
    /\ zCalls[r].pc = "zipping"
    /\ zFiles' = [zFiles EXCEPT ![zCalls[r].zipPath] = @ \cup {r}]
    /\ zCalls' = [zCalls EXCEPT ![r].pc = "stat"]
    /\ UNCHANGED zNow
    /\ UNCHANGED <<mcpVars, depVars, nameVars, composeVars, renderVars, aiVars, handleVars>>
    /\ UNCHANGED pipeVars

\* fs.stat(zipPath); createReadStream(zipPath); return { stream, size, path }
ZipReturn(r) ==
    /\ zCalls[r].pc = "stat"
    /\ zCalls' = [zCalls EXCEPT ![r].pc = "returned", ![r].stream = zFiles[zCalls[r].zipPath]]
    /\ UNCHANGED <<zFiles, zNow>>
    /\ UNCHANGED <<mcpVars, depVars, nameVars, composeVars, renderVars, aiVars, handleVars>>
    /\ UNCHANGED pipeVars

NextZip ==
    \/ ZipTick
    \/ \E r \in Requests : ZipOpen(r) \/ ZipWriteAndClose(r) \/ ZipReturn(r)

SpecZip == InitZip /\ [][NextZip]_vars

----------------------------------------------------------------------------
(* validateBlueprint applied to a blueprint *)

InitValidate ==
    /\ PipeIdle
    /\ blueprint \in ValidateBlueprints(MaxServices)
    /\ PureIdle
    /\ DepsIdle
    /\ NamesIdle
    /\ BuildIdle

Validate ==
    /\ vResult = NoResult
    /\ vResult' = validateBlueprint(blueprint)
    /\ UNCHANGED <<blueprint, sIssues, sWarnings, sScore, sPrevScore, eInput, ePrev, eCount>>
    /\ UNCHANGED <<depVars, nameVars, buildVars>>
    /\ UNCHANGED pipeVars

NextValidate == Validate

SpecValidate == InitValidate /\ [][NextValidate]_vars

----------------------------------------------------------------------------
(* calculateQualityScore applied to a blueprint and growing issue and warning lists *)

IssueList(n) == [k \in 1..n |-> <<"issue", k>>]
WarningList(n) == [k \in 1..n |-> <<"warning", k>>]

InitScore ==
    /\ PipeIdle
    /\ blueprint \in ScoreBlueprints(MaxServices)
    /\ PureIdle
    /\ DepsIdle
    /\ NamesIdle
    /\ BuildIdle

Score ==
    /\ sScore = NoScore
    /\ \E i \in 0..MaxIssues, w \in 0..MaxWarnings :
          /\ sIssues' = IssueList(i)
          /\ sWarnings' = WarningList(w)
          /\ sScore' = calculateQualityScore(blueprint, IssueList(i), WarningList(w))
    /\ UNCHANGED <<blueprint, vResult, sPrevScore, eInput, ePrev, eCount>>
    /\ UNCHANGED <<depVars, nameVars, buildVars>>
    /\ UNCHANGED pipeVars

AddIssue ==
    /\ sScore # NoScore
    /\ Len(sIssues) < MaxIssues
    /\ sIssues' = Append(sIssues, <<"issue", Len(sIssues) + 1>>)
    /\ sScore' = calculateQualityScore(blueprint, sIssues', sWarnings)
    /\ sPrevScore' = sScore
    /\ UNCHANGED <<blueprint, vResult, sWarnings, eInput, ePrev, eCount>>
    /\ UNCHANGED <<depVars, nameVars, buildVars>>
    /\ UNCHANGED pipeVars

AddWarning ==
    /\ sScore # NoScore
    /\ Len(sWarnings) < MaxWarnings
    /\ sWarnings' = Append(sWarnings, <<"warning", Len(sWarnings) + 1>>)
    /\ sScore' = calculateQualityScore(blueprint, sIssues, sWarnings')
    /\ sPrevScore' = sScore
    /\ UNCHANGED <<blueprint, vResult, sIssues, eInput, ePrev, eCount>>
    /\ UNCHANGED <<depVars, nameVars, buildVars>>
    /\ UNCHANGED pipeVars

NextScore == Score \/ AddIssue \/ AddWarning

SpecScore == InitScore /\ [][NextScore]_vars

----------------------------------------------------------------------------
(* applyBestPractices applied repeatedly to a blueprint *)

InitEnhance ==
    /\ PipeIdle
    /\ blueprint \in EnhanceBlueprints(MaxServices)
    /\ PureIdle
    /\ DepsIdle
    /\ NamesIdle
    /\ BuildIdle

Enhance ==
    /\ eCount < MaxEnhance
    /\ ePrev' = blueprint
    /\ blueprint' = applyBestPractices(blueprint)
    /\ eCount' = eCount + 1
    /\ UNCHANGED <<vResult, sIssues, sWarnings, sScore, sPrevScore, eInput>>
    /\ UNCHANGED <<depVars, nameVars, buildVars>>
    /\ UNCHANGED pipeVars

NextEnhance == Enhance

SpecEnhance == InitEnhance /\ [][NextEnhance]_vars

----------------------------------------------------------------------------
(* findDependencies applied to a service id, a connection list and a service list *)

InitDeps ==
    /\ PipeIdle
    /\ blueprint = EmptyObj
    /\ PureIdle
    /\ NamesIdle
    /\ BuildIdle
    /\ dArgs \in DepArgs(MaxServices, MaxConnections)
    /\ dResult = NoResult

FindDeps ==
    /\ dResult = NoResult
    /\ dResult' = findDependencies(dArgs)
    /\ UNCHANGED <<mcpVars, nameVars, buildVars, dArgs>>
    /\ UNCHANGED pipeVars

NextDeps == FindDeps

SpecDeps == InitDeps /\ [][NextDeps]_vars

----------------------------------------------------------------------------
(* sanitizeName applied repeatedly to a name *)

InitName ==
    /\ PipeIdle
    /\ blueprint = EmptyObj
    /\ PureIdle
    /\ DepsIdle
    /\ BuildIdle
    /\ nInput \in Names(MaxNameLen)
    /\ nPrev = nInput
    /\ nName = nInput
    /\ nCount = 0

Sanitize ==
    /\ nCount < MaxSanitize
    /\ nPrev' = nName
    /\ nName' = sanitizeName(nName)
    /\ nCount' = nCount + 1
    /\ UNCHANGED <<mcpVars, depVars, buildVars, nInput>>
    /\ UNCHANGED pipeVars

NextName == Sanitize

SpecName == InitName /\ [][NextName]_vars

----------------------------------------------------------------------------
(* Properties of validateBlueprint (SpecValidate) *)

ServicesOf(bp) == IF Has(bp, "services") THEN bp.services ELSE <<>>

\* C3: validateBlueprint raises no error for any blueprint, services
\* without a type included: every call returns a report carrying issues,
\* warnings, score and valid.
C3_ValidateNeverThrows ==
    vResult # NoResult =>
        /\ vResult.outcome = "report"
        /\ {"issues", "warnings", "score", "valid"} \subseteq DOMAIN vResult

\* C4: for every blueprint with zero services (an empty or a missing
\* services list) validateBlueprint returns exactly one blocking issue and
\* valid = false.
C4_ZeroServicesOneIssue ==
    (vResult # NoResult /\ Len(ServicesOf(blueprint)) = 0) =>
        /\ vResult.outcome = "report"
        /\ Len(vResult.issues) = 1
        /\ vResult.valid = FALSE

C4_Witness ==
    /\ Len(ServicesOf(blueprint)) = 0
    /\ Has(blueprint, "connections")
    /\ vResult # NoResult
    /\ vResult.outcome = "report"
    /\ vResult.issues = <<EmptyBlueprintIssue>>

DuplicateIds(bp) ==
    \E i, j \in 1..Len(ServicesOf(bp)) :
        i # j /\ Field(ServicesOf(bp)[i], "id") = Field(ServicesOf(bp)[j], "id")

\* C5: a blueprint in which two service nodes share the same id is
\* reported by validateBlueprint with a blocking issue (valid = false).
C5_DuplicateIdsBlocked ==
    (vResult # NoResult /\ vResult.outcome = "report" /\ DuplicateIds(blueprint)) =>
        (vResult.valid = FALSE /\ Len(vResult.issues) > 0)

\* The scenario of C8: exactly one backend service with an empty config,
\* and an empty connection list.
OneBackendEmptyConfig(bp) ==
    /\ Has(bp, "services")
    /\ Len(bp.services) = 1
    /\ Field(bp.services[1], "type") = "node"
    /\ Has(bp.services[1], "config")
    /\ bp.services[1].config = EmptyObj
    /\ Has(bp, "connections")
    /\ Len(bp.connections) = 0

\* C8 as stated: for one backend service with an empty config and no
\* connections, validateBlueprint gives one warning, no blocking issue, and
\* score 100.
C8_ScenarioScore100 ==
    (vResult # NoResult /\ OneBackendEmptyConfig(blueprint)) =>
        /\ vResult.outcome = "report"
        /\ Len(vResult.warnings) = 1
        /\ Len(vResult.issues) = 0
        /\ vResult.score = 100

\* C8 amended: for one backend service with an empty config and no
\* connections, validateBlueprint gives exactly one warning (the missing
\* port; no "not connected" warning for a single node), no blocking issue,
\* valid = true, and score 95.
C8_ScenarioScore95 ==
    (vResult # NoResult /\ OneBackendEmptyConfig(blueprint)) =>
        /\ vResult.outcome = "report"
        /\ vResult.warnings = <<(<<"missing port", Field(blueprint.services[1], "name")>>)>>
        /\ Len(vResult.issues) = 0
        /\ vResult.valid = TRUE
        /\ vResult.score = 95

C8_Witness ==
    /\ OneBackendEmptyConfig(blueprint)
    /\ vResult # NoResult
    /\ vResult.outcome = "report"
    /\ Len(vResult.warnings) = 1

----------------------------------------------------------------------------
(* Properties of calculateQualityScore (SpecScore) *)

Indicator(b) == IF b THEN 1 ELSE 0

Clamp(x, lo, hi) == IF x < lo THEN lo ELSE IF x > hi THEN hi ELSE x

SomeNodeCarries(bp, key) ==
    \E i \in 1..Len(ServicesOf(bp)) :
        /\ Has(ServicesOf(bp)[i], "config")
        /\ key \in DOMAIN ServicesOf(bp)[i].config

\* C6: the score equals clamp(100 - 20*|issues| - 5*|warnings|
\* + 10*[at least one connection] + 5*[some node has a health check]
\* + 5*[some node has resource limits], 0, 100), hence is an integer in
\* 0..100.
C6_ScoreFormula ==
    sScore # NoScore =>
        /\ sScore = Clamp(100 - 20 * Len(sIssues) - 5 * Len(sWarnings)
                          + 10 * Indicator(Has(blueprint, "connections")
                                           /\ blueprint.connections # <<>>)
                          + 5 * Indicator(SomeNodeCarries(blueprint, "healthCheck"))
                          + 5 * Indicator(SomeNodeCarries(blueprint, "resources")),
                          0, 100)
        /\ sScore \in 0..100

\* The lower clamp acts: the unclamped value is negative and the score is 0
C6_Witness ==
    /\ sScore = 0
    /\ 100 - 20 * Len(sIssues) - 5 * Len(sWarnings)
         + 10 * Indicator(Has(blueprint, "connections") /\ blueprint.connections # <<>>) < 0

\* C7: for a fixed blueprint, adding one more issue or one more warning
\* never yields a higher score.
C7_ScoreMonotone ==
    sPrevScore # NoScore => sScore <= sPrevScore

\* One more issue strictly lowered a score that was not clamped
C7_Witness ==
    /\ sPrevScore # NoScore
    /\ sScore < sPrevScore
    /\ Len(sIssues) >= 1
    /\ Len(sWarnings) >= 1

----------------------------------------------------------------------------
(* Properties of applyBestPractices (SpecEnhance) *)

EnhancedKeys == {"restart", "healthCheck", "resources"}

SameOn(after, before, keys) ==
    /\ Has(after, "services") = Has(before, "services")
    /\ Len(ServicesOf(after)) = Len(ServicesOf(before))
    /\ \A i \in 1..Len(ServicesOf(before)) :
          \A k \in keys :
              /\ Has(ConfigOf(ServicesOf(after)[i]), k) = Has(ConfigOf(ServicesOf(before)[i]), k)
              /\ Has(ConfigOf(ServicesOf(before)[i]), k) =>
                    ConfigOf(ServicesOf(after)[i])[k] = ConfigOf(ServicesOf(before)[i])[k]

\* C9: applyBestPractices(applyBestPractices(b)) has the same restart,
\* healthCheck and resources on every service as applyBestPractices(b).
C9_EnhanceIdempotent ==
    eCount >= 2 => SameOn(blueprint, ePrev, EnhancedKeys)

\* A second application on a blueprint whose first service had no health
\* check and a restart policy of its own before the first one
C9_Witness ==
    /\ eCount = 2
    /\ Len(ServicesOf(eInput)) >= 1
    /\ ~Has(ConfigOf(eInput.services[1]), "healthCheck")
    /\ Has(ConfigOf(blueprint.services[1]), "healthCheck")

\* C10: enhancement only fills absent fields: every config field the
\* caller supplied, restart excepted, has the same value in the enhanced
\* blueprint.
C10_EnhanceKeepsSupplied ==
    eCount >= 1 =>
        \A i \in 1..Len(ServicesOf(eInput)) :
            \A k \in DOMAIN ConfigOf(eInput.services[i]) \ {"restart"} :
                /\ Has(ConfigOf(ServicesOf(blueprint)[i]), k)
                /\ ConfigOf(ServicesOf(blueprint)[i])[k] = ConfigOf(eInput.services[i])[k]

----------------------------------------------------------------------------
(* Properties of the generation entry points and generateProject (Spec) *)

\* validateBlueprint of the blueprint reports at least one blocking issue
BlockingReport(b) ==
    LET v == validateBlueprint(b)
    IN  v.outcome = "report" /\ ~v.valid

Rejections == {"400-validation", "400-errors"}

\* C1: on every generation entry point, a request whose blueprint
\* validateBlueprint reports a blocking issue for ends rejected (a 400
\* carrying the report) and generateProject issues no file-system
\* operation for it, creating the working directory included.
C1_BlockedBeforeFileIO ==
    \A r \in Requests :
        (Has(req[r], "blueprint") /\ BlockingReport(req[r].blueprint)) =>
            /\ fsLog[r] = {}
            /\ ~WorkDirOf(r).exists
            /\ pc[r] = "done" => response[r] \in Rejections

AllocationSteps == {"none", "ensureDirectories", "mkdir"}

\* The error of a failed step has reached the caller of generateProject
ErrorAtCaller(r) ==
    \/ pc[r] = "gp:thrown"
    \/ pc[r] = "done" /\ response[r] = "500" /\ failedStep[r] # "none"

\* The fault of the request's own archive output ended the process
FaultEndedRun(r) == crashed /\ failedStep[r] = "zipProject output"

\* C2: whenever a step of generateProject after the allocation of the
\* working directory fails, a fault while the archive is written included,
\* the working directory no longer exists once the error has reached the
\* caller (or has ended the run).
C2_FailureRemovesWorkDir ==
    \A r \in Requests :
        (failedStep[r] \notin AllocationSteps /\ (ErrorAtCaller(r) \/ FaultEndedRun(r))) =>
            ~WorkDirOf(r).exists

\* validateBlueprint of the blueprint reports no blocking issue
ValidReport(b) ==
    LET v == validateBlueprint(b)
    IN  v.outcome = "report" /\ v.valid

\* The failedStep values that stand for a failed file-system or archive operation
FsFaults ==
    {"ensureDirectories", "mkdir", "generateDockerCompose", "generateService",
     "generateReadme", "generateEnvExample", "zipProject", "zipProject output", "stat"}

Delivered == {"200-zip", "200-json"}

\* C15: on each generation entry point, a run of generateProject for a
\* blueprint whose validation report has no blocking issue, in which no
\* file-system operation fails, never ends in Failed: it is not in the catch
\* block, and once over it has handed the archive to the requester.
C15_ValidRunDelivers ==
    \A r \in Requests :
        (/\ Has(req[r], "blueprint")
         /\ ValidReport(req[r].blueprint)
         /\ projectId[r] # NoId
         /\ failedStep[r] \notin FsFaults) =>
            /\ pc[r] \notin {"gp:catch", "gp:thrown"}
            /\ pc[r] = "done" => response[r] \in Delivered

\* generateProject returned its result (and the handler may have sent it)
Succeeded(r) ==
    \/ pc[r] = "gp:returned"
    \/ pc[r] = "done" /\ response[r] \in Delivered

\* Positions inside the try block at which projectDir is in use
UsingWorkDir == {"gp:compose", "gp:service", "gp:readme", "gp:env", "gp:zip", "gp:zipping"}

\* C16: after a successful generateProject the working directory is
\* removed: it is gone once the deferred cleanup, the only removal after a
\* success, has run; and it is not removed before the zip output stream has
\* closed.
C16_SuccessRemovesWorkDir ==
    \A r \in Requests :
        /\ (Succeeded(r) /\ ~timer[r]) => ~WorkDirOf(r).exists
        /\ pc[r] \in UsingWorkDir => WorkDirOf(r).exists

\* C17: every archive file a successful generateProject produced is
\* removed: once it has been delivered to the requester and the deferred
\* work of the request (the retention window) is over, the archive no
\* longer exists.
C17_ArchiveRemovedAfterDelivery ==
    \A r \in Requests :
        (pc[r] = "done" /\ response[r] \in Delivered /\ ~timer[r]) =>
            archive[r] = "absent"

\* C18: when generateProject fails, no partial artifact of the request
\* remains once the error is with the caller: no file in its working
\* directory and no partially written archive file.
C18_FailureLeavesNothing ==
    \A r \in Requests :
        (failedStep[r] # "none" /\ ErrorAtCaller(r)) =>
            /\ WorkDirOf(r).files = {}
            /\ archive[r] # "partial"

\* C19: for any interleaving of concurrent generateProject calls, each
\* request uses a working directory of its own: no two requests hold the
\* same directory, and every directory has been written, read or removed by
\* the request that holds it alone.
C19_OwnWorkDir ==
    /\ \A r1, r2 \in Requests :
          (r1 # r2 /\ projectId[r1] # NoId) => projectId[r1] # projectId[r2]
    /\ \A u \in Uuids :
          workDir[u].touchedBy \subseteq {r \in Requests : projectId[r] = u}

\* Two requests were generating at once; one failed and removed its
\* directory while the files of the other stayed in place for its archive
C19_Witness ==
    \E r1, r2 \in Requests :
        /\ r1 # r2
        /\ pc[r1] = "gp:thrown"
        /\ failedStep[r1] = "generateReadme"
        /\ ~WorkDirOf(r1).exists
        /\ WorkDirOf(r1).touchedBy = {r1}
        /\ pc[r2] = "gp:zipping"
        /\ "docker-compose.yml" \in WorkDirOf(r2).files
        /\ WorkDirOf(r2).touchedBy = {r2}

\* Every service of the request has been rendered by generateService
AllRendered(r) ==
    Has(gpArgs[r], "services") /\ svcIdx[r] > Len(gpArgs[r].services)

\* C20: in every run the orchestration descriptor (docker-compose.yml) is
\* synthesized and written only after every service node has been
\* rendered, and packaging (the archive) starts only after the descriptor
\* is written.
C20_StageOrder ==
    \A r \in Requests :
        /\ "write docker-compose.yml" \in fsLog[r] => AllRendered(r)
        /\ "createWriteStream zip" \in fsLog[r] => "write docker-compose.yml" \in fsLog[r]

\* A fault while the archive was written has been met by this request
ArchiveFault(r) == failedStep[r] \in {"zipProject", "zipProject output"}

\* C21: any fault while the archive is written (an error of the archiver or
\* of the output file stream) rejects the promise of zipProject: the request
\* is then in the catch block of generateProject or past it, the process is
\* up, and generateProject is not left pending nor resumed as if the
\* archive were complete.
C21_ArchiveFaultRejects ==
    \A r \in Requests :
        ArchiveFault(r) =>
            /\ ~crashed
            /\ pc[r] \in {"gp:catch", "gp:thrown", "done"}
            /\ pc[r] = "done" => response[r] = "500"

\* C28: cleanup never throws: when a stage of generateProject has failed,
\* the catch block rethrows the error of that stage, unchanged, also when
\* removing the working directory fails.
C28_OriginalErrorRethrown ==
    [][\A r \in Requests :
          (pc[r] = "gp:catch" /\ pc'[r] # "gp:catch") =>
              (pc'[r] = "gp:thrown" /\ failedStep'[r] = failedStep[r])]_vars

\* A stage failed, removing the working directory failed too, and the
\* error with the caller is the one of the stage
C28_Witness ==
    \E r \in Requests :
        /\ pc[r] = "gp:thrown"
        /\ failedStep[r] = "generateReadme"
        /\ WorkDirOf(r).exists
        /\ "rm projectDir" \in fsLog[r]

----------------------------------------------------------------------------
(* Properties of findDependencies (SpecDeps) *)

NodesOf(list) == {list[k] : k \in 1..Len(list)}

IdsOf(list) == {Field(list[k], "id") : k \in 1..Len(list)}

\* Targets of the connections of args whose source is args.serviceId
TargetsFrom(args) ==
    IF Has(args, "connections")
    THEN {Field(args.connections[k], "target") :
            k \in {j \in 1..Len(args.connections) :
                     Field(args.connections[j], "source") = args.serviceId}}
    ELSE {}

\* C11: findDependencies raises no error and returns only nodes that exist
\* in allServices, each the target of a connection from serviceId: a
\* connection whose target names no existing node contributes no dependency.
C11_DepsExistNoError ==
    dResult # NoResult =>
        /\ dResult.outcome = "list"
        /\ NodesOf(dResult.list) \subseteq NodesOf(dArgs.allServices)
        /\ IdsOf(dResult.list) \subseteq TargetsFrom(dArgs)
        /\ Len(dResult.list) <= Len(dArgs.allServices)

\* A connection to a node that does not exist, beside one to a node that does
C11_Witness ==
    /\ dResult # NoResult
    /\ "ghost" \in TargetsFrom(dArgs)
    /\ "ghost" \notin IdsOf(dArgs.allServices)
    /\ Len(dResult.list) = 1
    /\ Field(dResult.list[1], "id") = "b"

\* The list without the later repetitions of an element, from element k on
RECURSIVE FirstSeen(_, _, _)
FirstSeen(list, k, seen) ==
    IF k > Len(list) THEN <<>>
    ELSE IF list[k] \in seen THEN FirstSeen(list, k + 1, seen)
    ELSE <<list[k]>> \o FirstSeen(list, k + 1, seen \cup {list[k]})

UniqueIds(list) ==
    \A i, j \in 1..Len(list) : Field(list[i], "id") = Field(list[j], "id") => i = j

\* The target nodes of the connections from serviceId, in connection order,
\* each target once at the place of its first connection
InConnectionOrder(args) ==
    LET targets == IF Has(args, "connections")
                   THEN FirstSeen(DependencyIds(args.serviceId, args.connections, 1), 1, {})
                   ELSE <<>>
        found == SelectSeq(targets, LAMBDA t : t \in IdsOf(args.allServices))
    IN  [k \in 1..Len(found) |->
            CHOOSE s \in NodesOf(args.allServices) : Field(s, "id") = found[k]]

\* Every node carries an id of its own and every connection both endpoints
WellFormed(args) ==
    /\ UniqueIds(args.allServices)
    /\ \A k \in 1..Len(args.allServices) : Has(args.allServices[k], "id")
    /\ Has(args, "connections") =>
          \A k \in 1..Len(args.connections) :
              {"source", "target"} \subseteq DOMAIN args.connections[k]

\* C12: for well-formed nodes and connections, findDependencies returns the
\* target nodes of the connections whose source is serviceId in the order of
\* those connections, each target once at the position of its first
\* connection.
C12_DepsInConnectionOrder ==
    (dResult # NoResult /\ WellFormed(dArgs)) =>
        dResult.list = InConnectionOrder(dArgs)

----------------------------------------------------------------------------
(* Properties of sanitizeName (SpecName) *)

\* C13: sanitizeName is idempotent: sanitizeName(sanitizeName(x)) =
\* sanitizeName(x) for every name x.
C13_SanitizeIdempotent ==
    nCount >= 2 => nName = nPrev

\* A second application on a name the first one changed and shortened
C13_Witness ==
    /\ nCount = 2
    /\ Len(nName) < Len(nInput)
    /\ nName # <<>>
    /\ \E k \in 1..Len(nInput) : nInput[k] \notin LowerAlnumDash

\* name matches [a-z0-9]+(-[a-z0-9]+)*
MatchesIdentifier(name) ==
    /\ Len(name) > 0
    /\ \A k \in 1..Len(name) : name[k] \in LowerAlnumDash
    /\ name[1] # "-"
    /\ name[Len(name)] # "-"
    /\ \A k \in 1..(Len(name) - 1) : ~(name[k] = "-" /\ name[k + 1] = "-")

\* "my-cool-app"
MyCoolAppSanitized == <<"m", "y", "-", "c", "o", "o", "l", "-", "a", "p", "p">>

\* C14: the output of sanitizeName matches [a-z0-9]+(-[a-z0-9]+)* for every
\* input (non-empty, no leading or trailing '-', no two consecutive '-'),
\* and "My Cool App!" sanitizes to "my-cool-app".
C14_SanitizedIsIdentifier ==
    nCount >= 1 =>
        /\ MatchesIdentifier(nName)
        /\ nInput = MyCoolApp => nName = MyCoolAppSanitized

----------------------------------------------------------------------------
(* Properties of generateDockerCompose *)

Rendered(result) == result # NoResult /\ result.outcome = "rendered"

\* The sanitized names of the services that service svc has an outgoing
\* connection to
OutgoingNames(svc, args) ==
    {sanitizeName(LabelOrType(s)) :
        s \in {t \in ElementsOf(args.services) :
                \E c \in ElementsOf(args.connections) :
                    /\ Field(c, "source") = Field(svc, "id")
                    /\ Field(c, "target") = Field(t, "id")}}

ApiToDb == [source |-> "api", target |-> "db"]

C26_DistinctServicesDistinctNames ==
    Rendered(cResult) =>
        \A i, j \in 1..Len(cResult.services) :
            cResult.services[i].id # cResult.services[j].id =>
                /\ cResult.services[i].sanitizedName # cResult.services[j].sanitizedName
                /\ cResult.descriptor[i].key # cResult.descriptor[j].key

----------------------------------------------------------------------------
(* Properties of generateService *)

DockerfileFallbacks == {"Dockerfile render", "Dockerfile write"}

C23_WriteErrorsAbort ==
    gPc = "done" =>
        gSwallowed \cap {"template write", "Dockerfile write", "package.json write"} = {}

\* C25: rendering a node service with a dependency on a database writes the
\* connection bootstrap of that engine into the generated files and lists
\* its client package (pg for postgresql, mongoose for mongodb) in
\* package.json; stated for a type without template directory, where
\* every generated file is written by the renderer itself.
C25_BootstrapAndPackageWritten ==
    (gPc = "done" /\ gArgs.service.type = "node" /\ ~gArgs.templates.exists) =>
        LET dbDep == FindOfType(findDependencies(DepArgsOf(gArgs.service, gArgs)).list, DbTypes)
        IN  dbDep.found =>
                /\ Has(gFiles, "package.json")
                /\ DbPackage[dbDep.dep.type] \in gFiles["package.json"]
                /\ \E f \in DOMAIN gFiles : DbConnectionCode[dbDep.dep.type] \in gFiles[f]

----------------------------------------------------------------------------
(* Properties of handleRequest *)

\* The handler of each supported operation
HandlerOf ==
    [parse |-> "parseNaturalLanguage", generate |-> "generateBlueprint",
     validate |-> "validateBlueprint", enhance |-> "enhanceBlueprint",
     suggest |-> "suggestImprovements", export |-> "exportConfiguration"]

\* C30: handleRequest hands each operation of supportedOperations to exactly
\* one handler, its own, and for any other operation (an unknown name, a name
\* in another case, none at all) throws 'Unsupported operation' without
\* invoking a handler or any generation or AI step.
C30_DispatchExactlyOne ==
    /\ DOMAIN HandlerOf = ElementsOf(supportedOperations)
    /\ \A o1, o2 \in DOMAIN HandlerOf : HandlerOf[o1] = HandlerOf[o2] => o1 = o2
    /\ hResult # NoResult =>
          IF Has(hRequest, "operation") /\ hRequest.operation \in ElementsOf(supportedOperations)
          THEN /\ hResult.handlers = <<HandlerOf[hRequest.operation]>>
               /\ hResult.error # "Unsupported operation"
          ELSE /\ hResult.outcome = "thrown"
               /\ hResult.error = "Unsupported operation"
               /\ hResult.handlers = <<>>
               /\ hResult.steps = {}

\* The operation "delete", which is not supported, with a blueprint as payload
C30_Witness ==
    /\ Has(hRequest, "operation")
    /\ hRequest.operation = "delete"
    /\ Has(hRequest, "payload")
    /\ hResult # NoResult
    /\ hResult.outcome = "thrown"
    /\ hResult.handlers = <<>>

----------------------------------------------------------------------------
(* Properties of validateAndEnhanceBlueprint *)

\* C29: in the result of validateAndEnhanceBlueprint every service has a
\* config.port that is not null, and every connection kept has a source and
\* a target that are ids of services of the result.
C29_PortsAndConnections ==
    aResult # NoResult =>
        LET services == aResult.blueprint.services
            ids == {services[i].id : i \in 1..Len(services)}
        IN  /\ \A i \in 1..Len(services) :
                  /\ Has(services[i].config, "port")
                  /\ services[i].config.port # JsNull
            /\ \A c \in ElementsOf(aResult.blueprint.connections) :
                  /\ Has(c, "source") /\ c.source \in ids
                  /\ Has(c, "target") /\ c.target \in ids

----------------------------------------------------------------------------
(* Properties of concurrent zipProject calls *)

\* C27: in any interleaving of concurrent generateProject calls, whatever
\* their project names, no two requests write to the same archive path, and
\* the stream a requester gets holds only that request's project tree.
C27_ArchivesApart ==
    /\ \A r1, r2 \in Requests :
          (r1 # r2 /\ zCalls[r1].zipPath # NoPath /\ zCalls[r2].zipPath # NoPath)
              => zCalls[r1].zipPath # zCalls[r2].zipPath
    /\ \A r \in Requests : zCalls[r].pc = "returned" => zCalls[r].stream \subseteq {r}

====
